---- MODULE Spec2Model ----
(***************************************************************************)
(* Model of the path graph engine of js/selection/selectionTool.js:        *)
(* Root / Path / Vertex / Edge objects, the Path constructor (the path     *)
(* normalizer), createPath, Root.insert / remove / get / clear,            *)
(* createRectPath, splitEdge, deleteVertex and Transform.                  *)
(*                                                                         *)
(* Objects live in heaps (sequences indexed by object id); a reference is  *)
(* an id, NULL is the JavaScript null/undefined reference.  Operations are *)
(* functions from a memory record                                          *)
(*   [P, V, E, S, paths, ev, err, ret]                                     *)
(* to a memory record; the actions commit the result to the variables.     *)
(***************************************************************************)
EXTENDS Integers, Sequences, FiniteSets, TLC

VARIABLES
  paths,   \* root.paths: sequence of Path ids
  P,       \* heap of Path objects
  V,       \* heap of Vertex objects
  E,       \* heap of Edge objects
  S,       \* heap of SVGPathSeg objects (items of the paths' pathSegList)
  last,    \* the last API call: its name, arguments, result, notifications
  T,       \* the Transform objects constructed so far
  nops,    \* number of API calls made so far
  called,  \* history: the vertices deleteVertex was called with while on a path
  taken,   \* history: the vertices, edges and segments as they were when each
           \* Transform object was constructed
  readonly, \* root.readonly
  session, \* the variables of the drag handler's closure while its listeners
           \* are registered
  gesture, \* history: the heaps at the last pointer-down, and what the
           \* handlers of the session did since
  nested,  \* the closure of a second call of the drag handler, made while
           \* the listeners of the first are registered
  listener, \* history: root.paths as it was at the last change notification
  scope    \* the svgSelection directive over the root: the variables of its
           \* link function and the bindings of its scope

vars ==
  <<paths, P, V, E, S, T, last, nops, called, taken, readonly, session, gesture,
    nested, listener, scope>>

NULL == 0

\* A number that is undefined or NaN in the program (a field a segment kind
\* does not have, a variable that was never assigned).
NaN == -1000

Add(a, b) == IF a = NaN \/ b = NaN THEN NaN ELSE a + b
Sub(a, b) == IF a = NaN \/ b = NaN THEN NaN ELSE a - b
Mul(a, b) == IF a = NaN \/ b = NaN THEN NaN ELSE a * b

\* a % n of JavaScript: the sign of the result is the sign of a
JsMod(a, n) ==
  IF a = NaN THEN NaN ELSE IF a >= 0 THEN a % n ELSE 0 - ((0 - a) % n)

\* q + (p - q) * 2 / 3; the inputs of the model are multiples of 3, for which
\* the floating point result is this integer.
TwoThirds(p, q) == IF p = NaN \/ q = NaN THEN NaN ELSE q + ((p - q) * 2) \div 3

(***************************************************************************)
(* SVGPathSeg values.                                                      *)
(***************************************************************************)
Seg(t, x, y, x1, y1, x2, y2, r1, r2, angle, laf, sf) ==
  [t |-> t, x |-> x, y |-> y, x1 |-> x1, y1 |-> y1, x2 |-> x2, y2 |-> y2,
   r1 |-> r1, r2 |-> r2, angle |-> angle, laf |-> laf, sf |-> sf]

createSVGPathSegMovetoAbs(x, y) ==
  Seg("M", x, y, NaN, NaN, NaN, NaN, NaN, NaN, NaN, NaN, NaN)

createSVGPathSegLinetoAbs(x, y) ==
  Seg("L", x, y, NaN, NaN, NaN, NaN, NaN, NaN, NaN, NaN, NaN)

createSVGPathSegCurvetoCubicAbs(x, y, x1, y1, x2, y2) ==
  Seg("C", x, y, x1, y1, x2, y2, NaN, NaN, NaN, NaN, NaN)

createSVGPathSegArcAbs(x, y, r1, r2, angle, laf, sf) ==
  Seg("A", x, y, NaN, NaN, NaN, NaN, r1, r2, angle, laf, sf)

createSVGPathSegClosePath ==
  Seg("z", NaN, NaN, NaN, NaN, NaN, NaN, NaN, NaN, NaN, NaN, NaN)

(***************************************************************************)
(* Array.prototype.splice / indexOf and the SVGPathSegList operations.     *)
(***************************************************************************)
\* array.splice(start, 0, x), start already resolved to 0..Len
InsertAt(seq, start, x) ==
  SubSeq(seq, 1, start) \o <<x>> \o SubSeq(seq, start + 1, Len(seq))

\* array.splice(start, 0, x) with JavaScript's treatment of start
SpliceIn(seq, start, x) ==
  LET n == Len(seq)
      s == IF start < 0 THEN (IF n + start < 0 THEN 0 ELSE n + start)
           ELSE IF start > n THEN n ELSE start
  IN InsertAt(seq, s, x)

\* array.splice(start, 1), start 0-based; start = -1 removes the last element
SpliceOut(seq, start) ==
  LET n == Len(seq)
      s == IF start < 0 THEN (IF n + start < 0 THEN 0 ELSE n + start) ELSE start
  IN IF s >= n THEN seq ELSE SubSeq(seq, 1, s) \o SubSeq(seq, s + 2, n)

\* array.indexOf(x): 0-based, -1 when absent
indexOf(seq, x) ==
  IF \E i \in 1..Len(seq) : seq[i] = x
  THEN (CHOOSE i \in 1..Len(seq) : seq[i] = x /\ \A j \in 1..(i - 1) : seq[j] # x) - 1
  ELSE -1

insertItemBefore(m, pid, seg, index) ==
  LET id == Len(m.S) + 1
      segs == m.P[pid].segs
      at == IF index > Len(segs) THEN Len(segs) ELSE index
  IN [m EXCEPT !.S = Append(@, seg), !.P[pid].segs = InsertAt(segs, at, id)]

replaceItem(m, pid, seg, index) ==
  LET id == Len(m.S) + 1
      segs == m.P[pid].segs
  IN [m EXCEPT !.S = Append(@, seg),
               !.P[pid].segs = SubSeq(segs, 1, index) \o <<id>> \o
                               SubSeq(segs, index + 2, Len(segs))]

appendItem(m, pid, seg) ==
  LET id == Len(m.S) + 1
  IN [m EXCEPT !.S = Append(@, seg), !.P[pid].segs = Append(@, id)]

\* removeItem(index); an index outside the list raises IndexSizeError
removeItem(m, pid, index) ==
  LET segs == m.P[pid].segs
  IN IF index < 0 \/ index >= Len(segs)
     THEN [m EXCEPT !.err = TRUE]
     ELSE [m EXCEPT !.P[pid].segs = SpliceOut(segs, index)]

(***************************************************************************)
(* The svgSelection directive (link): the variables of its closure, the   *)
(* scope's bindings, the selection objects of the host (O) and the         *)
(* selection and selectionPath properties it sets on Path objects (tags).  *)
(* images are the Image objects of getImageSize with their "load"          *)
(* listener; calls, rewrites, done and watched are histories.              *)
(***************************************************************************)
\* root.clientRect.width and height
ClientWidth == 16
ClientHeight == 16

\* the natural size of the image at a url
ImageSize(url) ==
  IF url = "a" THEN [width |-> 16, height |-> 8] ELSE [width |-> 8, height |-> 16]

\* var size = null
NoSize == [width |-> NaN, height |-> NaN]

\* a Path that updateRoot never tagged: selection and selectionPath undefined
NoTag == [selection |-> NULL, selectionPath |-> <<>>]

\* the library without the directive
NoScope ==
  [root |-> FALSE, size |-> NoSize, cancelLoading |-> NULL,
   cancelChange |-> FALSE, updating |-> 0, imageSrc |-> "",
   bound |-> TRUE, svgSelection |-> <<>>, O |-> <<>>, tags |-> <<>>,
   images |-> <<>>, watched |-> <<>>, rewrites |-> 0, done |-> FALSE]

\* segment[field] *= scale, the scale a quotient num / den; the
\* coordinates of the model are multiples of den
ScaleBy(x, num, den) == IF x = NaN THEN NaN ELSE (x * num) \div den

\* scalePath, lines 236-246: the fields of a segment by its type letter
scaleSegment(seg, num, den) ==
  LET x == ScaleBy(seg.x, num, den)
      y == ScaleBy(seg.y, num, den)
  IN CASE seg.t \in {"M", "m", "L", "l", "T", "t"} ->
            [seg EXCEPT !.x = x, !.y = y]
       [] seg.t \in {"C", "c"} ->
            [seg EXCEPT !.x = x, !.y = y,
                        !.x1 = ScaleBy(@, num, den), !.y1 = ScaleBy(@, num, den),
                        !.x2 = ScaleBy(@, num, den), !.y2 = ScaleBy(@, num, den)]
       [] seg.t \in {"Q", "q"} ->
            [seg EXCEPT !.x = x, !.y = y,
                        !.x1 = ScaleBy(@, num, den), !.y1 = ScaleBy(@, num, den)]
       [] seg.t \in {"A", "a"} ->
            [seg EXCEPT !.x = x, !.y = y,
                        !.r1 = ScaleBy(@, num, den), !.r2 = ScaleBy(@, num, den)]
       [] seg.t \in {"H", "h"} -> [seg EXCEPT !.x = x]
       [] seg.t \in {"V", "v"} -> [seg EXCEPT !.y = y]
       [] seg.t \in {"S", "s"} ->
            [seg EXCEPT !.x = x, !.y = y,
                        !.x2 = ScaleBy(@, num, den), !.y2 = ScaleBy(@, num, den)]
       [] OTHER -> seg

\* scalePath(path, scale) of a string: the scaled "d"
RECURSIVE scalePath(_, _, _)
scalePath(d, num, den) ==
  IF d = <<>> THEN <<>>
  ELSE <<scaleSegment(Head(d), num, den)>> \o scalePath(Tail(d), num, den)

\* Path.d (getter) of a path that is not released: the items of its list
RECURSIVE SegsOf(_, _)
SegsOf(m, ids) ==
  IF ids = <<>> THEN <<>> ELSE <<m.S[Head(ids)]>> \o SegsOf(m, Tail(ids))

\* path.selection and path.selectionPath
tagOf(sc, pid) == IF pid <= Len(sc.tags) THEN sc.tags[pid] ELSE NoTag

RECURSIVE PadTags(_, _)
PadTags(tags, n) == IF Len(tags) >= n THEN tags ELSE PadTags(Append(tags, NoTag), n)

setTag(sc, pid, selection, selectionPath) ==
  [sc EXCEPT !.tags = [PadTags(@, pid) EXCEPT
                         ![pid] = [selection |-> selection,
                                   selectionPath |-> selectionPath]]]

\* selections[i] = selection, i 0-based and at most the array's length
SetAt(seq, i, x) ==
  IF i < Len(seq) THEN SubSeq(seq, 1, i) \o <<x>> \o SubSeq(seq, i + 2, Len(seq))
  ELSE Append(seq, x)

\* what the deep watch of scope.svgSelection compares: the entries by value
RECURSIVE SelectionValue(_, _)
SelectionValue(O, list) ==
  IF list = <<>> THEN <<>>
  ELSE <<IF Head(list) = NULL THEN [path |-> <<>>, selected |-> FALSE]
         ELSE O[Head(list)]>> \o SelectionValue(O, Tail(list))

\* updateSelection, lines 194-204: the loop over root.paths
RECURSIVE updateSelectionLoop(_, _)
updateSelectionLoop(m, i) ==
  IF m.err \/ i >= Len(m.paths) THEN m
  ELSE LET pid == m.paths[i + 1]
           old == tagOf(m.sc, pid).selection
           oid == IF old # NULL THEN old ELSE Len(m.sc.O) + 1
           O1 == IF old # NULL THEN m.sc.O
                 ELSE Append(m.sc.O, [path |-> <<>>, selected |-> FALSE])
       IN IF ~m.P[pid].element THEN [m EXCEPT !.err = TRUE]
          ELSE LET d == scalePath(SegsOf(m, m.P[pid].segs),
                                  m.sc.size.width, ClientWidth)
                   sc1 == [m.sc EXCEPT
                             !.O = [O1 EXCEPT ![oid] = [path |-> d,
                                                        selected |-> m.P[pid].selected]],
                             !.svgSelection = SetAt(@, i, oid),
                             !.bound = TRUE]
               IN updateSelectionLoop(
                    [m EXCEPT !.sc = setTag(sc1, pid, oid, d)], i + 1)

\* updateSelection, the listener of the root's "change" event; its $apply
\* runs the watches while updating is not zero, where updateRoot returns at
\* once
updateSelection(m) ==
  IF m.sc.updating > 0 \/ m.sc.size = NoSize THEN m
  ELSE LET m1 == updateSelectionLoop(
                   [m EXCEPT !.sc.svgSelection = IF m.sc.bound THEN @ ELSE <<>>,
                             !.sc.bound = TRUE], 0)
       IN IF m1.err THEN m1
          ELSE [m1 EXCEPT !.sc.svgSelection =
                             IF Len(@) > Len(m1.paths)
                             THEN SubSeq(@, 1, Len(m1.paths)) ELSE @,
                          !.sc.watched =
                             SelectionValue(m1.sc.O,
                               IF Len(m1.sc.svgSelection) > Len(m1.paths)
                               THEN SubSeq(m1.sc.svgSelection, 1, Len(m1.paths))
                               ELSE m1.sc.svgSelection),
                          !.sc.rewrites = @ + 1]

(***************************************************************************)
(* Root.change: the notification is recorded in the memory's event list;   *)
(* whether its path is then in root.paths and is not released in the       *)
(* memory's at; and root.paths as the listener finds it in the memory's    *)
(* seen.                                                                   *)
(***************************************************************************)
dispatchEvent(m, action, path) ==
  [m EXCEPT !.ev = Append(@, [action |-> action, path |-> path]),
            !.at = Append(@, [member |-> \E i \in DOMAIN m.paths : m.paths[i] = path,
                              live |-> path # NULL /\ m.P[path].element]),
            !.seen = m.paths]

\* the listener of the directive runs while cancelChange was not called
change(m, action, path) ==
  IF m.sc.cancelChange THEN updateSelection(dispatchEvent(m, action, path))
  ELSE dispatchEvent(m, action, path)

\* Path.selected (getter): the element's "selected" attribute
selected(m, pid) == m.P[pid].element /\ m.P[pid].selected

\* index || length: an index that is undefined (NaN here) or 0 is falsy
OrLength(index, length) == IF index = NaN \/ index = 0 THEN length ELSE index

createEdge(m, pid, x, y, edgeItem, pathItem, index) ==
  LET id == Len(m.E) + 1
      edges == m.P[pid].edges
      edge == [path |-> pid, x0 |-> x, y0 |-> y, to |-> edgeItem,
               segment |-> pathItem, start |-> NULL, end |-> NULL,
               selected |-> selected(m, pid), element |-> TRUE]
  IN [m EXCEPT !.E = Append(@, edge),
               !.P[pid].edges =
                   SpliceIn(edges, OrLength(index, Len(edges)), id)]

createVertex(m, pid, x, y, segment, index) ==
  LET id == Len(m.V) + 1
      vertices == m.P[pid].vertices
      vertex == [path |-> pid, x |-> x, y |-> y, smooth |-> FALSE,
                 segment |-> segment, incoming |-> NULL, outgoing |-> NULL,
                 selected |-> selected(m, pid), element |-> TRUE]
  IN [m EXCEPT !.V = Append(@, vertex),
               !.P[pid].vertices =
                   SpliceIn(vertices, OrLength(index, Len(vertices)), id)]

(***************************************************************************)
(* function Path(element, root): the constructor normalizes the element's  *)
(* segment list in place and builds the vertices and edges.  st is the     *)
(* constructor's frame: the memory, the path under construction and the    *)
(* local variables.  PathStep is one pass of the inner loop "Test"         *)
(* together with, when the pass leaves the switch by break, the rest of    *)
(* the body of the outer loop "Iteration".                                 *)
(***************************************************************************)
PathFrame(m, pid) ==
  [m |-> m, pid |-> pid, smooth |-> FALSE, edge |-> NULL,
   prevAssigned |-> FALSE, prevType |-> "null", prevX |-> NaN, prevY |-> NaN,
   initialVertex |-> NULL, initial |-> NULL, initialX |-> 0, initialY |-> 0,
   currentX |-> 0, currentY |-> 0, index |-> 0]

PathSegs(st) == st.m.P[st.pid].segs

\* lines 946-953: prevType of the next pass
PathPrev(st, type) ==
  IF st.prevAssigned
  THEN [st EXCEPT !.prevAssigned = FALSE]
  ELSE [st EXCEPT !.prevType = type]

\* lines 959-970: the vertex at which the new edge starts
PathVertex(st, vid) ==
  IF st.edge = NULL
  THEN [st EXCEPT !.m = createVertex(@, st.pid, st.initialX, st.initialY,
                                     st.initial, NaN),
                  !.initial = NULL, !.initialVertex = vid]
  ELSE [st EXCEPT !.m = [createVertex(@, st.pid, st.currentX, st.currentY,
                                      NULL, NaN)
                         EXCEPT !.E[st.edge].end = vid,
                                !.V[vid].incoming = st.edge]]

\* lines 972-976: the new edge; item is the path segment at index
PathEdge(st, edgeItem, vid, eid) ==
  [st EXCEPT !.m = [createEdge(@, st.pid, st.currentX, st.currentY, edgeItem,
                               PathSegs(st)[st.index + 1], NaN)
                    EXCEPT !.E[eid].start = vid,
                           !.V[vid].smooth = st.smooth,
                           !.V[vid].outgoing = eid],
            !.edge = eid, !.smooth = FALSE]

\* lines 982-993: the end of the list
PathEnd(st) ==
  IF st.index # Len(PathSegs(st)) THEN st
  ELSE IF st.edge # NULL
  THEN [st EXCEPT !.m = appendItem(@, st.pid, createSVGPathSegClosePath)]
  ELSE IF st.initial # NULL
  THEN [st EXCEPT !.m = removeItem(@, st.pid, st.index - 1)]
  ELSE st

\* lines 979-982
PathAdvance(st, x, y) ==
  PathEnd([st EXCEPT !.currentX = x, !.currentY = y, !.index = @ + 1])

\* lines 946-993: after the switch, for a segment that makes an edge
PathDraw(st, type, edgeItem, x, y) ==
  PathAdvance(PathEdge(PathVertex(PathPrev(st, type), Len(st.m.V) + 1),
                       edgeItem, Len(st.m.V) + 1, Len(st.m.E) + 1), x, y)

\* lines 946-993: after the switch, for a segment that makes no edge
PathSkip(st, type, x, y) == PathAdvance(PathPrev(st, type), x, y)

\* lines 683-689: closepath links the open edge to the initial vertex
PathLink(st) ==
  IF st.edge # NULL
  THEN [st EXCEPT !.m.E[st.edge].end = st.initialVertex,
                  !.m.V[st.initialVertex].incoming = st.edge,
                  !.edge = NULL, !.initialVertex = NULL]
  ELSE st

\* lines 659-695: case "z", "Z"
PathClose(st, type) ==
  IF (st.initialX # st.currentX) \/ (st.initialY # st.currentY)
  THEN [st EXCEPT !.m = insertItemBefore(@, st.pid,
                      createSVGPathSegLinetoAbs(st.initialX, st.initialY), st.index)]
  ELSE IF st.prevType \in {"z", "Z", "M"}
  THEN [st EXCEPT !.m = removeItem(@, st.pid, st.index)]
  ELSE PathSkip(PathLink(st), type, st.initialX, st.initialY)

\* lines 732-739: a moveto that finds an edge open
PathMovetoEdge(st, vid) ==
  IF st.edge # NULL
  THEN [st EXCEPT !.m = [createVertex(@, st.pid, st.currentX, st.currentY,
                                      NULL, NaN)
                         EXCEPT !.E[st.edge].end = vid,
                                !.V[vid].incoming = st.edge],
                  !.edge = NULL]
  ELSE st

\* lines 741-743
PathInitial(st, x, y) ==
  [st EXCEPT !.initial = PathSegs(st)[st.index + 1],
             !.initialX = x, !.initialY = y]

\* lines 710-715: the previous moveto is dropped
PathDropPrev(st) ==
  IF st.prevType = "M"
  THEN [st EXCEPT !.m = removeItem(@, st.pid, st.index - 1), !.index = @ - 1]
  ELSE st

\* a moveto that never inserts a closepath before itself
PathMoveto_noClose(st, type, x, y) ==
  PathSkip(PathInitial(PathMovetoEdge(PathDropPrev(st), Len(st.m.V) + 1),
                       x, y), type, x, y)

\* lines 706-746: case "M" (entered from "m" with the item already replaced)
PathMoveto(st, type, x, y) ==
  IF st.prevType \notin {"M", "null", "z", "Z"}
  THEN [st EXCEPT !.m = insertItemBefore(@, st.pid, createSVGPathSegClosePath,
                                         st.index)]
  ELSE PathSkip(PathInitial(PathMovetoEdge(PathDropPrev(st), Len(st.m.V) + 1),
                            x, y), type, x, y)

PathStep(st) ==
  LET m == st.m
      pid == st.pid
      index == st.index
      item == m.S[PathSegs(st)[index + 1]]
      type == item.t
      cx == st.currentX
      cy == st.currentY
  IN
  IF st.initial = NULL /\ st.initialVertex = NULL /\ type # "M"
  THEN [st EXCEPT !.m = insertItemBefore(m, pid,
                      createSVGPathSegMovetoAbs(st.initialX, st.initialY), index)]
  ELSE CASE type \in {"z", "Z"} -> PathClose(st, type)
    [] type = "m" ->
         LET x == Add(item.x, cx)
             y == Add(item.y, cy)
         IN PathMoveto([st EXCEPT !.m = replaceItem(m, pid,
                            createSVGPathSegMovetoAbs(x, y), index)], type, x, y)
    [] type = "M" -> PathMoveto(st, type, item.x, item.y)
    [] type = "l" ->
         LET x == Add(item.x, cx)
             y == Add(item.y, cy)
         IN PathDraw([st EXCEPT !.m = replaceItem(m, pid,
                          createSVGPathSegLinetoAbs(x, y), index)],
                     type, createSVGPathSegLinetoAbs(x, y), x, y)
    [] type = "L" ->
         PathDraw(st, type, createSVGPathSegLinetoAbs(item.x, item.y),
                  item.x, item.y)
    [] type = "c" ->
         LET x == Add(item.x, cx)
             y == Add(item.y, cy)
             x1 == Add(item.x1, cx)
             y1 == Add(item.y1, cy)
             x2 == Add(item.x2, cx)
             y2 == Add(item.y2, cy)
             seg == createSVGPathSegCurvetoCubicAbs(x, y, x1, y1, x2, y2)
         IN PathDraw([st EXCEPT !.m = replaceItem(m, pid, seg, index)],
                     "C", seg, x, y)
    [] type = "C" ->
         PathDraw(st, type,
                  createSVGPathSegCurvetoCubicAbs(item.x, item.y, item.x1, item.y1,
                                                  item.x2, item.y2),
                  item.x, item.y)
    [] type \in {"q", "Q"} ->
         LET rel == type = "q"
             x == IF rel THEN Add(item.x, cx) ELSE item.x
             y == IF rel THEN Add(item.y, cy) ELSE item.y
             qx == IF rel THEN Add(item.x1, cx) ELSE item.x1
             qy == IF rel THEN Add(item.y1, cy) ELSE item.y1
             seg == createSVGPathSegCurvetoCubicAbs(x, y,
                        TwoThirds(qx, cx), TwoThirds(qy, cy),
                        TwoThirds(qx, x), TwoThirds(qy, y))
         IN [st EXCEPT !.prevAssigned = TRUE, !.prevType = "Q",
                       !.prevX = qx, !.prevY = qy,
                       !.m = replaceItem(m, pid, seg, index)]
    [] type = "a" ->
         LET x == Add(item.x, cx)
             y == Add(item.y, cy)
             seg == createSVGPathSegArcAbs(x, y, item.r1, item.r2, item.angle,
                                           item.laf, item.sf)
         IN PathDraw([st EXCEPT !.m = replaceItem(m, pid, seg, index)],
                     type, seg, x, y)
    [] type = "A" ->
         PathDraw(st, type,
                  createSVGPathSegArcAbs(item.x, item.y, item.r1, item.r2,
                                         item.angle, item.laf, item.sf),
                  item.x, item.y)
    [] type \in {"h", "H"} ->
         LET x == IF type = "h" THEN Add(item.x, cx) ELSE item.x
         IN [st EXCEPT !.m = replaceItem(m, pid,
                 createSVGPathSegLinetoAbs(x, item.y), index)]
    [] type \in {"v", "V"} ->
         LET y == IF type = "v" THEN Add(item.y, cy) ELSE item.y
         IN [st EXCEPT !.m = replaceItem(m, pid,
                 createSVGPathSegLinetoAbs(item.x, y), index)]
    [] type \in {"s", "S"} ->
         LET rel == type = "s"
             x == IF rel THEN Add(item.x, cx) ELSE item.x
             y == IF rel THEN Add(item.y, cy) ELSE item.y
             x2 == IF rel THEN Add(item.x2, cx) ELSE item.x2
             y2 == IF rel THEN Add(item.y2, cy) ELSE item.y2
             refl == st.prevType = "C"
             x1 == IF refl THEN Sub(Add(cx, cx), st.prevX) ELSE cx
             y1 == IF refl THEN Sub(Add(cy, cy), st.prevY) ELSE cy
         IN [st EXCEPT !.smooth = IF refl THEN TRUE ELSE @,
                       !.prevAssigned = TRUE, !.prevType = "C",
                       !.prevX = x2, !.prevY = y2,
                       !.m = replaceItem(m, pid,
                           createSVGPathSegCurvetoCubicAbs(x, y, x1, y1, x2, y2),
                           index)]
    [] type \in {"t", "T"} ->
         LET rel == type = "t"
             x == IF rel THEN Add(item.x, cx) ELSE item.x
             y == IF rel THEN Add(item.y, cy) ELSE item.y
             refl == st.prevType = "Q"
             qx == IF refl THEN Sub(Add(cx, cx), st.prevX) ELSE cx
             qy == IF refl THEN Sub(Add(cy, cy), st.prevY) ELSE cy
         IN [st EXCEPT !.smooth = IF refl THEN TRUE ELSE @,
                       !.prevAssigned = TRUE, !.prevType = "Q",
                       !.prevX = qx, !.prevY = qy,
                       !.m = replaceItem(m, pid,
                           createSVGPathSegCurvetoCubicAbs(x, y,
                               TwoThirds(qx, cx), TwoThirds(qy, cy),
                               TwoThirds(qx, x), TwoThirds(qy, y)),
                           index)]
    [] OTHER -> [st EXCEPT !.m = removeItem(m, pid, index)]

RECURSIVE PathLoop(_)
PathLoop(st) ==
  IF st.index < Len(PathSegs(st)) THEN PathLoop(PathStep(st)) ELSE st

\* the sequence <<a, a + 1, ..., b>>
RECURSIVE Ids(_, _)
Ids(a, b) == IF a > b THEN <<>> ELSE <<a>> \o Ids(a + 1, b)

\* new Path(element, root): d is the element's parsed segment list
Path(m, d) ==
  PathLoop(PathFrame(
    [m EXCEPT !.P = Append(@, [segs |-> Ids(Len(m.S) + 1, Len(m.S) + Len(d)),
                               vertices |-> <<>>, edges |-> <<>>,
                               selected |-> FALSE, element |-> TRUE]),
              !.S = @ \o d],
    Len(m.P) + 1)).m

(***************************************************************************)
(* SVGPathElement.getTotalLength(), as far as the program uses it: whether *)
(* the traced length is zero.  A line is empty when its ends coincide, a   *)
(* cubic when its ends and both control points coincide, an arc when its   *)
(* ends coincide (the SVG implementation notes omit such an arc); a length *)
(* computed from a NaN coordinate is NaN, neither zero nor positive.       *)
(***************************************************************************)
SegLength(seg, px, py, ix, iy) ==
  CASE seg.t = "M" -> "zero"
    [] seg.t = "z" -> IF px = NaN \/ py = NaN THEN "nan"
                      ELSE IF px = ix /\ py = iy THEN "zero" ELSE "positive"
    [] seg.t = "C" ->
         IF NaN \in {px, py, seg.x, seg.y, seg.x1, seg.y1, seg.x2, seg.y2}
         THEN "nan"
         ELSE IF {seg.x, seg.x1, seg.x2} = {px} /\ {seg.y, seg.y1, seg.y2} = {py}
              THEN "zero" ELSE "positive"
    [] OTHER -> IF NaN \in {px, py, seg.x, seg.y} THEN "nan"
                ELSE IF seg.x = px /\ seg.y = py THEN "zero" ELSE "positive"

AddLength(a, b) ==
  IF a = "nan" \/ b = "nan" THEN "nan"
  ELSE IF a = "positive" \/ b = "positive" THEN "positive" ELSE "zero"

RECURSIVE ListLength(_, _, _, _, _, _)
ListLength(list, i, px, py, ix, iy) ==
  IF i > Len(list) THEN "zero"
  ELSE LET seg == list[i]
           nx == IF seg.t = "z" THEN ix ELSE seg.x
           ny == IF seg.t = "z" THEN iy ELSE seg.y
       IN AddLength(SegLength(seg, px, py, ix, iy),
                    ListLength(list, i + 1, nx, ny,
                               IF seg.t = "M" THEN seg.x ELSE ix,
                               IF seg.t = "M" THEN seg.y ELSE iy))

\* the segment values of a path's list
SegValues(m, pid) == [i \in 1..Len(m.P[pid].segs) |-> m.S[m.P[pid].segs[i]]]

\* path.element.getTotalLength()
getTotalLength(m, pid) == ListLength(SegValues(m, pid), 1, 0, 0, 0, 0)

\* edge.element.getTotalLength(): the edge element is "M x0 y0" and its segment
edgeTotalLength(m, eid) ==
  SegLength(m.E[eid].to, m.E[eid].x0, m.E[eid].y0, m.E[eid].x0, m.E[eid].y0)

(***************************************************************************)
(* release() of Edge, Vertex and Path.                                     *)
(***************************************************************************)
releaseEdge(m, eid) ==
  [m EXCEPT !.E[eid].segment = NULL, !.E[eid].start = NULL, !.E[eid].end = NULL,
            !.E[eid].element = FALSE]

releaseVertex(m, vid) ==
  [m EXCEPT !.V[vid].segment = NULL, !.V[vid].incoming = NULL,
            !.V[vid].outgoing = NULL, !.V[vid].element = FALSE]

RECURSIVE releaseEdges(_, _)
releaseEdges(m, list) ==
  IF list = <<>> THEN m ELSE releaseEdges(releaseEdge(m, Head(list)), Tail(list))

RECURSIVE releaseVertices(_, _)
releaseVertices(m, list) ==
  IF list = <<>> THEN m
  ELSE releaseVertices(releaseVertex(m, Head(list)), Tail(list))

releasePath(m, pid) ==
  LET m1 == releaseEdges(m, m.P[pid].edges)
      m2 == releaseVertices(m1, m.P[pid].vertices)
  IN [m2 EXCEPT !.P[pid].edges = <<>>, !.P[pid].vertices = <<>>,
                !.P[pid].element = FALSE]

RECURSIVE releasePaths(_, _)
releasePaths(m, list) ==
  IF list = <<>> THEN m ELSE releasePaths(releasePath(m, Head(list)), Tail(list))

\* toggle(element) of the setter of Path.selected, over vertices and edges
RECURSIVE toggleVertices(_, _, _)
toggleVertices(m, list, value) ==
  IF list = <<>> THEN m
  ELSE toggleVertices(
         [m EXCEPT !.V[Head(list)].selected = IF m.V[Head(list)].element
                                               THEN value ELSE @],
         Tail(list), value)

RECURSIVE toggleEdges(_, _, _)
toggleEdges(m, list, value) ==
  IF list = <<>> THEN m
  ELSE toggleEdges(
         [m EXCEPT !.E[Head(list)].selected = IF m.E[Head(list)].element
                                               THEN value ELSE @],
         Tail(list), value)

\* Path.selected = value (setter)
setSelected(m, pid, value) ==
  toggleEdges(
    toggleVertices(
      [m EXCEPT !.P[pid].selected = IF m.P[pid].element THEN value ELSE @],
      m.P[pid].vertices, value),
    m.P[pid].edges, value)

(***************************************************************************)
(* createPath(element, root, index); index is NaN when it is not passed.   *)
(* The result is in the memory's ret: the new Path, or NULL.               *)
(***************************************************************************)
createPathDone(m1, pid, index) ==
  IF Len(m1.P[pid].vertices) <= 1 /\ getTotalLength(m1, pid) = "positive"
  THEN [releasePath(m1, pid) EXCEPT !.ret = NULL]
  ELSE [m1 EXCEPT !.paths =
                     SpliceIn(@, IF index # NaN /\ index >= 0 /\ index < Len(@)
                                 THEN index ELSE Len(@), pid),
                  !.ret = pid]

createPath(m, d, index) == createPathDone(Path(m, d), Len(m.P) + 1, index)

\* Root.insert(options, index): lines 556-568, after createPath
insertDone(m1, sel) ==
  IF m1.ret = NULL THEN m1
  ELSE change(IF sel THEN setSelected(m1, m1.ret, TRUE) ELSE m1, "insert", m1.ret)

\* Root.insert(options, index), lines 546-547: the clamped index
insertIndex(list, index) ==
  IF index = NaN THEN Len(list)
  ELSE IF index < 0 THEN 0
  ELSE IF index > Len(list) THEN Len(list) ELSE index

\* Root.insert(options, index): the index is clamped and then not used,
\* createPath is called without an index
insert(m, d, sel, index) == insertDone(createPath(m, d, NaN), sel)

\* a get that clamps its index into the list, as Root.insert does
get_clamped(m, index) ==
  IF Len(m.paths) = 0 THEN NULL
  ELSE IF index < 0 THEN m.paths[1]
  ELSE IF index >= Len(m.paths) THEN m.paths[Len(m.paths)]
  ELSE m.paths[index + 1]

\* Root.get(index)
get(m, index) ==
  IF index >= 0 /\ index < Len(m.paths) THEN m.paths[index + 1] ELSE NULL

\* Root.remove(index)
remove(m, index) ==
  LET path == get(m, index)
  IN IF path = NULL THEN m
     ELSE releasePath(change([m EXCEPT !.paths = SpliceOut(@, index)],
                             "remove", path), path)

\* Root.clear()
clear(m) ==
  IF Len(m.paths) > 0
  THEN change([releasePaths(m, m.paths) EXCEPT !.paths = <<>>], "clear", NULL)
  ELSE m

\* createRectPath: lines 1783-1786, after createPath
createRectPathDone(m1) ==
  IF m1.ret = NULL THEN [m1 EXCEPT !.err = TRUE]
  ELSE change(setSelected(m1, m1.ret, TRUE), "transform", m1.ret)

\* a rectangle drawn from the top-left corner down the left side first
createRectPath_leftFirst(m, left, top, right, bottom) ==
  createRectPathDone(createPath(m,
    << createSVGPathSegMovetoAbs(left, top),
       createSVGPathSegLinetoAbs(left, bottom),
       createSVGPathSegLinetoAbs(right, bottom),
       createSVGPathSegLinetoAbs(right, top),
       createSVGPathSegLinetoAbs(left, top),
       createSVGPathSegClosePath >>, NaN))

\* createRectPath(root, left, top, right, bottom)
createRectPath(m, left, top, right, bottom) ==
  createRectPathDone(createPath(m,
    << createSVGPathSegMovetoAbs(left, top),
       createSVGPathSegLinetoAbs(right, top),
       createSVGPathSegLinetoAbs(right, bottom),
       createSVGPathSegLinetoAbs(left, bottom),
       createSVGPathSegLinetoAbs(left, top),
       createSVGPathSegClosePath >>, NaN))

\* segmentIndex(segments, segment): NaN stands for undefined
segmentIndex(segments, segment) ==
  IF indexOf(segments, segment) < 0 THEN NaN ELSE indexOf(segments, segment)

(***************************************************************************)
(* deleteVertex(vertex).  Reading a property of a null reference raises a  *)
(* TypeError: the call ends there with err set.                            *)
(***************************************************************************)
\* deleteVertexMerge that leaves the vertex in path.vertices
deleteVertexMerge_keepVertex(m, path, vertex, incoming, outgoing, next, index) ==
  [removeItem([m EXCEPT !.S[m.E[incoming].segment].x = m.S[m.E[outgoing].segment].x,
                        !.S[m.E[incoming].segment].y = m.S[m.E[outgoing].segment].y,
                        !.E[incoming].to.x = m.S[m.E[outgoing].segment].x,
                        !.E[incoming].to.y = m.S[m.E[outgoing].segment].y,
                        !.E[incoming].end = next,
                        !.V[next].incoming = incoming],
              path, index)
   EXCEPT !.P[path].edges = SpliceOut(@, indexOf(@, outgoing))]

\* deleteVertexMerge that does not move the end of the incoming edge's element
deleteVertexMerge_keepEdgeItem(m, path, vertex, incoming, outgoing, next, index) ==
  [removeItem([m EXCEPT !.S[m.E[incoming].segment].x = m.S[m.E[outgoing].segment].x,
                        !.S[m.E[incoming].segment].y = m.S[m.E[outgoing].segment].y,
                        !.E[incoming].end = next,
                        !.V[next].incoming = incoming],
              path, index)
   EXCEPT !.P[path].vertices = SpliceOut(@, indexOf(@, vertex)),
          !.P[path].edges = SpliceOut(@, indexOf(@, outgoing))]

\* lines 1613-1622: the incoming edge takes over the outgoing edge's end
deleteVertexMerge(m, path, vertex, incoming, outgoing, next, index) ==
  [removeItem([m EXCEPT !.S[m.E[incoming].segment].x = m.S[m.E[outgoing].segment].x,
                        !.S[m.E[incoming].segment].y = m.S[m.E[outgoing].segment].y,
                        !.E[incoming].to.x = m.S[m.E[outgoing].segment].x,
                        !.E[incoming].to.y = m.S[m.E[outgoing].segment].y,
                        !.E[incoming].end = next,
                        !.V[next].incoming = incoming],
              path, index)
   EXCEPT !.P[path].vertices = SpliceOut(@, indexOf(@, vertex)),
          !.P[path].edges = SpliceOut(@, indexOf(@, outgoing))]

\* lines 1624-1629: the moveto of the removed vertex moves to the next vertex
deleteVertexMoveto(m, vertex, outgoing, next) ==
  IF m.V[vertex].segment # NULL
  THEN [m EXCEPT !.V[next].segment = m.V[vertex].segment,
                 !.S[m.V[vertex].segment].x = m.S[m.E[outgoing].segment].x,
                 !.S[m.V[vertex].segment].y = m.S[m.E[outgoing].segment].y]
  ELSE m

\* lines 1655-1661: an emptied path leaves root.paths
deleteVertexEmpty(m, path) ==
  IF Len(m.P[path].vertices) = 0
  THEN releasePath(change([m EXCEPT !.paths = SpliceOut(@, indexOf(@, path))],
                          "remove", path), path)
  ELSE change(m, "transform", path)

\* lines 1647-1653: the subpath's closepath, edge and moveto are removed; a
\* removeItem outside the list raises IndexSizeError
deleteVertexLast(m, path, vertex, incoming, index) ==
  IF index + 1 >= Len(m.P[path].segs) THEN [m EXCEPT !.err = TRUE]
  ELSE IF index < 0 THEN [removeItem(m, path, index + 1) EXCEPT !.err = TRUE]
  ELSE IF index = 0
  THEN [removeItem(removeItem(m, path, index + 1), path, index) EXCEPT !.err = TRUE]
  ELSE deleteVertexEmpty(
         releaseVertex(releaseEdge(
           [removeItem(removeItem(removeItem(m, path, index + 1), path, index),
                       path, index - 1)
            EXCEPT !.P[path].vertices = SpliceOut(@, indexOf(@, vertex)),
                   !.P[path].edges = SpliceOut(@, indexOf(@, incoming))],
           incoming), vertex),
         path)

\* deleteVertexMerged that removes a merged self-loop whatever its length
deleteVertexMerged_anyLength(m1, path, incoming, next, index) ==
  IF incoming = m1.V[next].outgoing
  THEN deleteVertexLast(m1, path, next, incoming, index)
  ELSE change(m1, "transform", path)

\* lines 1639-1667, after a merge that left memory m1
deleteVertexMerged(m1, path, incoming, next, index) ==
  IF (incoming = m1.V[next].outgoing) /\ (edgeTotalLength(m1, incoming) = "zero")
  THEN deleteVertexLast(m1, path, next, incoming, index)
  ELSE change(m1, "transform", path)

\* lines 1607-1667
deleteVertexAt(m, path, vertex, incoming, outgoing, index) ==
  IF incoming = outgoing
  THEN deleteVertexLast(m, path, vertex, incoming, index)
  ELSE deleteVertexMerged(
         releaseVertex(releaseEdge(
           deleteVertexMoveto(
             deleteVertexMerge(m, path, vertex, incoming, outgoing,
                               m.E[outgoing].end, index),
             vertex, outgoing, m.E[outgoing].end),
           outgoing), vertex),
         path, incoming, m.E[outgoing].end,
         IF m.V[vertex].segment # NULL THEN index ELSE index - 1)

deleteVertex(m, vertex) ==
  LET path == m.V[vertex].path
      incoming == m.V[vertex].incoming
      outgoing == m.V[vertex].outgoing
  IN IF ~m.P[path].element \/ outgoing = NULL \/ incoming = NULL
     THEN [m EXCEPT !.err = TRUE]
     ELSE IF segmentIndex(m.P[path].segs, m.E[outgoing].segment) = NaN
     THEN m
     ELSE deleteVertexAt(m, path, vertex, incoming, outgoing,
                         segmentIndex(m.P[path].segs, m.E[outgoing].segment))

(***************************************************************************)
(* splitEdge(edge, x, y); ret is the new vertex, or NULL.                  *)
(***************************************************************************)
\* splitEdgeLink without "split.end.incoming = split"
splitEdgeLink_noIncoming(m, edge, end, vertex, split) ==
  [m EXCEPT !.E[split].end = end,
            !.E[split].start = vertex,
            !.V[vertex].outgoing = split,
            !.V[vertex].incoming = edge,
            !.E[edge].end = vertex]

\* splitEdgeLink without "edge.end = vertex"
splitEdgeLink_keepEnd(m, edge, end, vertex, split) ==
  [m EXCEPT !.E[split].end = end,
            !.V[end].incoming = split,
            !.E[split].start = vertex,
            !.V[vertex].outgoing = split,
            !.V[vertex].incoming = edge]

\* lines 1709-1714: the links of the new vertex and the new edge
splitEdgeLink(m, edge, end, vertex, split) ==
  [m EXCEPT !.E[split].end = end,
            !.V[end].incoming = split,
            !.E[split].start = vertex,
            !.V[vertex].outgoing = split,
            !.V[vertex].incoming = edge,
            !.E[edge].end = vertex]

\* lines 1699-1707: the new vertex goes before edge.end, the new edge before edge
splitEdgeCreate(m, path, edge, x, y, item, itemId) ==
  createEdge(createVertex(m, path, x, y, NULL,
                          indexOf(m.P[path].vertices, m.E[edge].end)),
             path, x, y, item, itemId, indexOf(m.P[path].edges, edge))

\* splitEdgeAt with the new segments made after the edge was moved: the new
\* edge leads to the split point
splitEdgeAt_newPoint(m, path, edge, segment, x, y, index) ==
  [change(
     splitEdgeLink(
       splitEdgeCreate(
         insertItemBefore([m EXCEPT !.E[edge].to.x = x, !.E[edge].to.y = y,
                                    !.S[segment].x = x, !.S[segment].y = y],
                          path, createSVGPathSegLinetoAbs(x, y), index + 1),
         path, edge, x, y, createSVGPathSegLinetoAbs(x, y), Len(m.S) + 1),
       edge, m.E[edge].end, Len(m.V) + 1, Len(m.E) + 1),
     "transform", path)
   EXCEPT !.ret = Len(m.V) + 1]

\* lines 1691-1717
splitEdgeAt(m, path, edge, segment, x, y, index) ==
  [change(
     splitEdgeLink(
       splitEdgeCreate(
         insertItemBefore([m EXCEPT !.E[edge].to.x = x, !.E[edge].to.y = y,
                                    !.S[segment].x = x, !.S[segment].y = y],
                          path,
                          createSVGPathSegLinetoAbs(m.S[segment].x, m.S[segment].y),
                          index + 1),
         path, edge, x, y,
         createSVGPathSegLinetoAbs(m.S[segment].x, m.S[segment].y),
         Len(m.S) + 1),
       edge, m.E[edge].end, Len(m.V) + 1, Len(m.E) + 1),
     "transform", path)
   EXCEPT !.ret = Len(m.V) + 1]

splitEdge(m, edge, x, y) ==
  LET path == m.E[edge].path
      segment == m.E[edge].segment
  IN IF ~m.P[path].element THEN [m EXCEPT !.err = TRUE, !.ret = NULL]
     ELSE IF segmentIndex(m.P[path].segs, segment) = NaN
     THEN [m EXCEPT !.ret = NULL]
     ELSE splitEdgeAt(m, path, edge, segment, x, y,
                      segmentIndex(m.P[path].segs, segment))

(***************************************************************************)
(* Transform.  A Transform object holds the snapshot its constructor took: *)
(* for a Path the positions of its vertices and the data of its edges, for *)
(* a Vertex or an Edge the vertices to move with their incoming and        *)
(* outgoing edges, and the centre of the path's bounding box.              *)
(***************************************************************************)
Least(set) == CHOOSE a \in set : \A b \in set : a <= b
Greatest(set) == CHOOSE a \in set : \A b \in set : a >= b

\* path.element.getBBox() of a segment list.  The box is computed when it is
\* the box of the anchor points: the list is empty, or it is made of movetos
\* that start a line or a curve, of lines, of closepaths and of cubic curves
\* whose control points are inside the box of the anchor points.  For other
\* lists (arcs, curves that bulge out of the anchors' box) the model has no
\* number: known is FALSE.
BoxOf(xs, ys) ==
  [known |-> TRUE, x |-> Least(xs), y |-> Least(ys),
   width |-> Greatest(xs) - Least(xs), height |-> Greatest(ys) - Least(ys)]

UnknownBox == [known |-> FALSE, x |-> NaN, y |-> NaN, width |-> NaN, height |-> NaN]

BoxKnown(list, xs, ys) ==
  \A i \in DOMAIN list :
    CASE list[i].t = "z" -> TRUE
      [] list[i].t = "M" -> i < Len(list) /\ list[i + 1].t \in {"L", "C"}
      [] list[i].t = "L" -> list[i].x # NaN /\ list[i].y # NaN
      [] list[i].t = "C" ->
           /\ NaN \notin {list[i].x, list[i].y, list[i].x1, list[i].y1,
                          list[i].x2, list[i].y2}
           /\ list[i].x1 >= Least(xs) /\ list[i].x1 <= Greatest(xs)
           /\ list[i].x2 >= Least(xs) /\ list[i].x2 <= Greatest(xs)
           /\ list[i].y1 >= Least(ys) /\ list[i].y1 <= Greatest(ys)
           /\ list[i].y2 >= Least(ys) /\ list[i].y2 <= Greatest(ys)
      [] OTHER -> FALSE

ListBBox(list) ==
  LET anchors == {i \in DOMAIN list : list[i].t # "z"}
      xs == {list[i].x : i \in anchors}
      ys == {list[i].y : i \in anchors}
  IN IF anchors = {}
     THEN [known |-> TRUE, x |-> 0, y |-> 0, width |-> 0, height |-> 0]
     ELSE IF BoxKnown(list, xs, ys) THEN BoxOf(xs, ys) ELSE UnknownBox

getBBox(m, pid) == ListBBox(SegValues(m, pid))

\* lines 1289-1294: bounds.x + bounds.width / 2 and bounds.y + bounds.height / 2,
\* when the model has integers for them
Centre(path, bounds) ==
  IF bounds.known /\ bounds.width % 2 = 0 /\ bounds.height % 2 = 0
  THEN [path |-> path, centred |-> TRUE, cx |-> bounds.x + bounds.width \div 2,
        cy |-> bounds.y + bounds.height \div 2]
  ELSE [path |-> path, centred |-> FALSE, cx |-> NaN, cy |-> NaN]

\* lines 1228-1236
TransformVertices(m, list) ==
  [i \in 1..Len(list) |-> [vertex |-> list[i], x |-> m.V[list[i]].x, y |-> m.V[list[i]].y]]

\* lines 1238-1259
TransformEdges(m, list) ==
  [i \in 1..Len(list) |->
     [edge |-> list[i], x0 |-> m.E[list[i]].x0, y0 |-> m.E[list[i]].y0,
      to |-> m.E[list[i]].to]]

\* lines 1267-1286: an Edge object has no x1, y1, x2, y2
TransformVertex(m, list) ==
  [i \in 1..Len(list) |->
     [vertex |-> list[i], incoming |-> m.V[list[i]].incoming,
      outgoing |-> m.V[list[i]].outgoing, px |-> m.V[list[i]].x,
      py |-> m.V[list[i]].y, x1 |-> NaN, y1 |-> NaN, x2 |-> NaN, y2 |-> NaN]]

\* new Transform(item), item = <<"path", id>>, <<"vertex", id>> or
\* <<"edge", id>>, throws TypeError when the item was released: the element of
\* a released vertex or path is null, the ends of a released edge are null
TransformThrows(m, item) ==
  CASE item[1] = "path" -> ~m.P[item[2]].element
    [] item[1] = "vertex" -> ~m.V[item[2]].element
    [] OTHER -> ~m.E[item[2]].element

\* lines 1224-1287: the snapshot of the item
TransformData(m, item) ==
  CASE item[1] = "path" ->
         [form |-> "path",
          vertices |-> TransformVertices(m, m.P[item[2]].vertices),
          edges |-> TransformEdges(m, m.P[item[2]].edges),
          vertex |-> <<>>]
    [] item[1] = "vertex" ->
         [form |-> "vertex",
          vertices |-> <<>>, edges |-> <<>>,
          vertex |-> TransformVertex(m, <<item[2]>>)]
    [] OTHER ->
         [form |-> "vertex",
          vertices |-> <<>>, edges |-> <<>>,
          vertex |-> TransformVertex(m, <<m.E[item[2]].start, m.E[item[2]].end>>)]

\* the path of the item
TransformPath(m, item) ==
  CASE item[1] = "path" -> item[2]
    [] item[1] = "vertex" -> m.V[item[2]].path
    [] OTHER -> m.E[item[2]].path

\* new Transform(item): the object constructed
Transform(m, item) ==
  TransformData(m, item) @@
  Centre(TransformPath(m, item), getBBox(m, TransformPath(m, item)))

\* lines 1350-1382: the options with their defaults; undefined is NaN
OrZero(a) == IF a = NaN THEN 0 ELSE a

atan2Degrees(sin, cos) ==
  CASE sin = 0 /\ cos > 0 -> 0
    [] sin > 0 /\ cos = 0 -> 90
    [] sin = 0 /\ cos < 0 -> 180
    [] sin < 0 /\ cos = 0 -> 0 - 90
    [] OTHER -> NaN

transformOptions(t, o) ==
  LET s == IF o.s = NaN THEN 1 ELSE o.s
      given == o.sin # NaN /\ o.cos # NaN
  IN [cx |-> IF o.cx = NaN THEN t.cx ELSE o.cx,
      cy |-> IF o.cy = NaN THEN t.cy ELSE o.cy, dx |-> OrZero(o.dx), dy |-> OrZero(o.dy),
      s |-> s, sy |-> IF o.sy = NaN THEN s ELSE o.sy,
      angle |-> IF o.angle # NaN THEN o.angle
                ELSE IF given THEN atan2Degrees(o.sin, o.cos) ELSE 0,
      sin |-> IF given THEN o.sin ELSE 0,
      cos |-> IF given THEN o.cos ELSE 1]

\* a point scaled and turned about the origin, whatever the centre
transformPoint_origin(o, x, y) ==
  [x |-> Add(Add(Mul(x, Mul(o.cos, o.s)), Mul(y, Mul(0 - o.sin, o.s))), o.dx),
   y |-> Add(Add(Mul(x, Mul(o.sin, o.sy)), Mul(y, Mul(o.cos, o.sy))), o.dy)]

\* lines 1436-1443
transformPoint(o, x, y) ==
  [x |-> Add(Add(Add(Mul(Sub(x, o.cx), Mul(o.cos, o.s)),
                     Mul(Sub(y, o.cy), Mul(0 - o.sin, o.s))), o.cx), o.dx),
   y |-> Add(Add(Add(Mul(Sub(x, o.cx), Mul(o.sin, o.sy)),
                     Mul(Sub(y, o.cy), Mul(o.cos, o.sy))), o.cy), o.dy)]

\* lines 1445-1468: transform(segment, data)
transformSegment(o, seg, data) ==
  LET p == transformPoint(o, data.x, data.y)
      p1 == transformPoint(o, data.x1, data.y1)
      p2 == transformPoint(o, data.x2, data.y2)
  IN CASE seg.t = "C" ->
            [seg EXCEPT !.x = p.x, !.y = p.y, !.x1 = p1.x, !.y1 = p1.y,
                        !.x2 = p2.x, !.y2 = p2.y]
       [] seg.t = "A" ->
            [seg EXCEPT !.x = p.x, !.y = p.y, !.r1 = Mul(data.r1, o.s),
                        !.r2 = Mul(data.r2, o.s),
                        !.angle = JsMod(Add(data.angle, o.angle), 360)]
       [] OTHER -> [seg EXCEPT !.x = p.x, !.y = p.y]

\* a vertex circle and the vertex's moveto, if it has one, move to (x, y)
moveVertex(m, vertex, x, y) ==
  IF m.V[vertex].segment = NULL
  THEN [m EXCEPT !.V[vertex].x = x, !.V[vertex].y = y]
  ELSE [m EXCEPT !.V[vertex].x = x, !.V[vertex].y = y,
                 !.S[m.V[vertex].segment].x = x, !.S[m.V[vertex].segment].y = y]

\* lines 1470-1484: path.vertices.forEach; a vertex the snapshot has no entry
\* for raises TypeError
RECURSIVE transformPathVertices(_, _, _, _)
transformPathVertices(m, t, o, i) ==
  IF m.err \/ i > Len(m.P[t.path].vertices) THEN m
  ELSE IF i > Len(t.vertices) THEN [m EXCEPT !.err = TRUE]
  ELSE transformPathVertices(
         moveVertex(m, m.P[t.path].vertices[i],
                    transformPoint(o, t.vertices[i].x, t.vertices[i].y).x,
                    transformPoint(o, t.vertices[i].x, t.vertices[i].y).y),
         t, o, i + 1)

\* an edge transformed from its present coordinates, not from the snapshot
transformPathEdge_cumulative(m, o, edge, data) ==
  [m EXCEPT !.E[edge].x0 = transformPoint(o, m.E[edge].x0, m.E[edge].y0).x,
            !.E[edge].y0 = transformPoint(o, m.E[edge].x0, m.E[edge].y0).y,
            !.E[edge].to = transformSegment(o, @, m.E[edge].to),
            !.S[m.E[edge].segment] = transformSegment(o, @, m.E[edge].to)]

\* lines 1488-1498: one edge of path.edges.forEach
transformPathEdge(m, o, edge, data) ==
  [m EXCEPT !.E[edge].x0 = transformPoint(o, data.x0, data.y0).x,
            !.E[edge].y0 = transformPoint(o, data.x0, data.y0).y,
            !.E[edge].to = transformSegment(o, @, data.to),
            !.S[m.E[edge].segment] = transformSegment(o, @, data.to)]

\* lines 1486-1499
RECURSIVE transformPathEdges(_, _, _, _)
transformPathEdges(m, t, o, i) ==
  IF m.err \/ i > Len(m.P[t.path].edges) THEN m
  ELSE IF i > Len(t.edges) THEN [m EXCEPT !.err = TRUE]
  ELSE transformPathEdges(
         transformPathEdge(m, o, m.P[t.path].edges[i], t.edges[i]), t, o, i + 1)

\* an outgoing edge whose start is scaled by options.s
transformOutgoing_scaled(m, o, item, x, y) ==
  IF ~m.E[item.outgoing].element THEN [m EXCEPT !.err = TRUE]
  ELSE [m EXCEPT !.E[item.outgoing].x0 = Mul(x, o.s),
                 !.E[item.outgoing].y0 = Mul(y, o.s)]

\* lines 1399-1411: the outgoing edge of the snapshot starts at (x, y)
transformOutgoing(m, o, item, x, y) ==
  IF ~m.E[item.outgoing].element THEN [m EXCEPT !.err = TRUE]
  ELSE IF m.E[item.outgoing].to.t = "C"
  THEN [m EXCEPT !.E[item.outgoing].x0 = x, !.E[item.outgoing].y0 = y,
                 !.E[item.outgoing].to.x1 = Add(item.x1, o.dx),
                 !.E[item.outgoing].to.y1 = Add(item.y1, o.dy),
                 !.S[m.E[item.outgoing].segment].x1 = Add(item.x1, o.dx),
                 !.S[m.E[item.outgoing].segment].y1 = Add(item.y1, o.dy)]
  ELSE [m EXCEPT !.E[item.outgoing].x0 = x, !.E[item.outgoing].y0 = y]

\* lines 1413-1424: the incoming edge of the snapshot ends at (x, y)
transformIncoming(m, o, item, x, y) ==
  IF m.err THEN m
  ELSE IF ~m.E[item.incoming].element THEN [m EXCEPT !.err = TRUE]
  ELSE IF m.E[item.incoming].to.t = "C"
  THEN [m EXCEPT !.E[item.incoming].to.x = x, !.E[item.incoming].to.y = y,
                 !.S[m.E[item.incoming].segment].x = x,
                 !.S[m.E[item.incoming].segment].y = y,
                 !.E[item.incoming].to.x2 = Add(item.x2, o.dx),
                 !.E[item.incoming].to.y2 = Add(item.y2, o.dy),
                 !.S[m.E[item.incoming].segment].x2 = Add(item.x2, o.dx),
                 !.S[m.E[item.incoming].segment].y2 = Add(item.y2, o.dy)]
  ELSE [m EXCEPT !.E[item.incoming].to.x = x, !.E[item.incoming].to.y = y,
                 !.S[m.E[item.incoming].segment].x = x,
                 !.S[m.E[item.incoming].segment].y = y]

\* lines 1384-1426: self._vertex.forEach
RECURSIVE transformVertex(_, _, _, _)
transformVertex(m, t, o, i) ==
  IF m.err \/ i > Len(t.vertex) THEN m
  ELSE transformVertex(
         transformIncoming(
           transformOutgoing(
             moveVertex(m, t.vertex[i].vertex, Add(t.vertex[i].px, o.dx),
                        Add(t.vertex[i].py, o.dy)),
             o, t.vertex[i], Add(t.vertex[i].px, o.dx), Add(t.vertex[i].py, o.dy)),
           o, t.vertex[i], Add(t.vertex[i].px, o.dx), Add(t.vertex[i].py, o.dy)),
         t, o, i + 1)

\* Transform.prototype.transform(options)
transform(m, t, options) ==
  IF t.form = "vertex" THEN transformVertex(m, t, transformOptions(t, options), 1)
  ELSE transformPathEdges(
         transformPathVertices(m, t, transformOptions(t, options), 1),
         t, transformOptions(t, options), 1)


(***************************************************************************)
(* Inputs.  A descriptor is the parsed "d" attribute: a sequence of        *)
(* segments, absolute or relative.  Coordinates are multiples of 3.        *)
(***************************************************************************)
Rel(seg, letter) == [seg EXCEPT !.t = letter]

Quad(t, x1, y1, x, y) ==
  Seg(t, x, y, x1, y1, NaN, NaN, NaN, NaN, NaN, NaN, NaN)

\* "S x2 y2 x y", "T x y", "H x", "V y" and their relative forms: a segment
\* has the fields of its kind only
Smooth(t, x2, y2, x, y) ==
  Seg(t, x, y, NaN, NaN, x2, y2, NaN, NaN, NaN, NaN, NaN)

SmoothQuad(t, x, y) ==
  Seg(t, x, y, NaN, NaN, NaN, NaN, NaN, NaN, NaN, NaN, NaN)

Horizontal(t, x) ==
  Seg(t, x, NaN, NaN, NaN, NaN, NaN, NaN, NaN, NaN, NaN, NaN)

Vertical(t, y) ==
  Seg(t, NaN, y, NaN, NaN, NaN, NaN, NaN, NaN, NaN, NaN, NaN)

\* "M 0 0 L 3 0 L 3 3": an open triangle
DTriangle == << createSVGPathSegMovetoAbs(0, 0), createSVGPathSegLinetoAbs(3, 0),
                createSVGPathSegLinetoAbs(3, 3) >>
\* "M 0 0 Q 3 3 3 0 z": a quadratic curve and the closing line
DQuadLoop == << createSVGPathSegMovetoAbs(0, 0), Quad("Q", 3, 3, 3, 0),
                createSVGPathSegClosePath >>
\* "M 0 0 l 3 0 A 3 3 0 0 1 0 0": a line and an arc back
DArcLoop == << createSVGPathSegMovetoAbs(0, 0),
               Rel(createSVGPathSegLinetoAbs(3, 0), "l"),
               createSVGPathSegArcAbs(0, 0, 3, 3, 0, 0, 1) >>
\* "M 0 0 L 3 0 z M 3 3 L 3 3": a loop and a single-point subpath
DTwoSubpaths == << createSVGPathSegMovetoAbs(0, 0), createSVGPathSegLinetoAbs(3, 0),
                   createSVGPathSegClosePath, createSVGPathSegMovetoAbs(3, 3),
                   createSVGPathSegLinetoAbs(3, 3) >>
\* "M 0 0 C 3 3 3 3 0 0": one vertex, positive length
DCubicSelfLoop == << createSVGPathSegMovetoAbs(0, 0),
                     createSVGPathSegCurvetoCubicAbs(0, 0, 3, 3, 3, 3) >>
\* "M 0 0 C 0 0 0 0 3 0 z": a cubic whose control points lie on its start
DFlatCubicLoop == << createSVGPathSegMovetoAbs(0, 0),
                     createSVGPathSegCurvetoCubicAbs(3, 0, 0, 0, 0, 0),
                     createSVGPathSegClosePath >>
\* "m 3 0 z L 3 0": a relative moveto, a closepath and a line of no length
DRelMoveLoop == << Rel(createSVGPathSegMovetoAbs(3, 0), "m"),
                   createSVGPathSegClosePath, createSVGPathSegLinetoAbs(3, 0) >>
\* "M 0 0 L 10 0 L 10 10 L 0 10 Z": a rectangle
DRect == << createSVGPathSegMovetoAbs(0, 0), createSVGPathSegLinetoAbs(10, 0),
            createSVGPathSegLinetoAbs(10, 10), createSVGPathSegLinetoAbs(0, 10),
            createSVGPathSegClosePath >>
\* "M 0 0 C 6 0 6 0 6 6 L 0 6 z": a cubic curve inside the box of its anchors
DCurve == << createSVGPathSegMovetoAbs(0, 0),
             createSVGPathSegCurvetoCubicAbs(6, 6, 6, 0, 6, 0),
             createSVGPathSegLinetoAbs(0, 6), createSVGPathSegClosePath >>
\* "M 0 0 z": no drawing command
DEmpty == << createSVGPathSegMovetoAbs(0, 0), createSVGPathSegClosePath >>

Descriptors ==
  {DTriangle, DQuadLoop, DArcLoop, DTwoSubpaths, DCubicSelfLoop, DFlatCubicLoop,
   DRelMoveLoop, DEmpty}

EmptyMem == [P |-> <<>>, V |-> <<>>, E |-> <<>>, S |-> <<>>, paths |-> <<>>,
             ev |-> <<>>, err |-> FALSE, ret |-> NULL, seen |-> <<>>, at |-> <<>>,
             sc |-> NoScope]

Mem == [P |-> P, V |-> V, E |-> E, S |-> S, paths |-> paths,
        ev |-> <<>>, err |-> FALSE, ret |-> NULL, seen |-> listener, at |-> <<>>,
        sc |-> scope]

(***************************************************************************)
(* Bounds and input sets.                                                  *)
(***************************************************************************)
\* number of API calls in a behaviour of Spec and of SpecTransform
MaxOps == 3
\* capacity of the edge heap in SpecEdit: splitEdge is called while it has room
MaxEdges == 4

\* the index argument of Root.insert / get / remove; NaN: not passed
Indexes == {NaN, -1, 0, 1}
SplitPoints == {<<0, 0>>, <<6, 3>>}


Options(cx, cy, dx, dy, s, sin, cos) ==
  [cx |-> cx, cy |-> cy, dx |-> dx, dy |-> dy, s |-> s, sy |-> NaN,
   angle |-> NaN, sin |-> sin, cos |-> cos]

\* a shift by (3, 0); a quarter turn about (0, 0) with a scale of 2
TransformOptions ==
  { Options(0, 0, 3, NaN, NaN, NaN, NaN), Options(0, 0, NaN, NaN, 2, 1, 0) }

\* no options; the identity spelled out; a shift by (3, 6); a scale of 2
\* about the default centre; a shift by (3, 0) with a scale of 2 and a quarter
\* turn about (0, 0); a scale of 2 by 3 with a shift by (0, 3) about (0, 0)
NoOptions == Options(NaN, NaN, NaN, NaN, NaN, NaN, NaN)
SnapshotOptions ==
  { NoOptions,
    Options(NaN, NaN, 0, 0, 1, 0, 1),
    Options(NaN, NaN, 3, 6, NaN, NaN, NaN),
    Options(NaN, NaN, NaN, NaN, 2, NaN, NaN),
    Options(0, 0, 3, NaN, 2, 1, 0),
    [Options(0, 0, NaN, 3, 2, NaN, NaN) EXCEPT !.sy = 3] }

(***************************************************************************)
(* The drag handler (mousedown on the root's element).  session holds the  *)
(* variables of its closure from the registration of the mousemove,        *)
(* mouseup and keydown listeners to their removal.  A pointer position is  *)
(* relative to the root's client rectangle.                                *)
(***************************************************************************)
movingAction == 1
deletingVertexAction == 2
creatingPathAction == 3

draggingVertex == 1
draggingEdge == 2
draggingPath == 4
draggingRoot == 8

\* the closure's variables; item is a pair of a kind and an id; undefined is
\* NaN for a number and NULL for an object
Session(item, path, dragging, action, px, py, splitted) ==
  [active |-> TRUE, item |-> item, path |-> path, dragging |-> dragging,
   action |-> action, transform |-> NULL, px |-> px, py |-> py,
   cx |-> NaN, cy |-> NaN, vx |-> NaN, vy |-> NaN, r |-> NaN,
   cancelled |-> FALSE, splitted |-> splitted]

\* no listener is registered
Idle ==
  [Session(<<"root", NULL>>, NULL, NULL, NaN, NaN, NaN, FALSE)
     EXCEPT !.active = FALSE]

NoGesture ==
  [phase |-> "none", target |-> <<"root", NULL>>, ctrl |-> FALSE, shift |-> FALSE,
   before |-> [paths |-> <<>>, P |-> <<>>, V |-> <<>>, E |-> <<>>, S |-> <<>>],
   moves |-> 0, ev |-> <<>>, deleted |-> <<>>]

\* selectPath(root, path)
RECURSIVE selectPathOver(_, _, _)
selectPathOver(m, list, path) ==
  IF list = <<>> THEN m
  ELSE selectPathOver(
         IF selected(m, Head(list)) # (Head(list) = path)
         THEN change(setSelected(m, Head(list), Head(list) = path), "select",
                     Head(list))
         ELSE m,
         Tail(list), path)

selectPath(m, path) == selectPathOver(m, m.paths, path)

\* lines 1817-1821: the path of the item under the pointer
dragPath(m, item) ==
  CASE item[1] = "path" -> item[2]
    [] item[1] = "vertex" -> m.V[item[2]].path
    [] item[1] = "edge" -> m.E[item[2]].path
    [] OTHER -> NULL

\* lines 1851-1859
dragSelect(m, path) ==
  IF path # NULL
  THEN IF selected(m, path) THEN m ELSE selectPath(m, path)
  ELSE selectPath(m, NULL)

\* lines 1889-1909, ctrl on an edge: the edge is split at the pointer and the
\* new vertex is dragged
dragSplit(m1, path, px, py) ==
  [m |-> m1,
   s |-> IF m1.err THEN Idle
         ELSE Session(IF m1.ret = NULL THEN <<"null", NULL>>
                      ELSE <<"vertex", m1.ret>>,
                      path, draggingVertex, movingAction, px, py, TRUE)]

\* lines 1869-1947: the switch over dragging, after selection; m is the
\* memory after selection
dragStart(m, item, path, px, py, ctrl, shift) ==
  CASE item[1] = "vertex" ->
         [m |-> m,
          s |-> IF shift
                THEN Session(<<"path", path>>, path, draggingPath, NaN, px, py, FALSE)
                ELSE Session(item, path, draggingVertex,
                             IF ctrl THEN deletingVertexAction ELSE movingAction,
                             px, py, FALSE)]
    [] item[1] = "edge" ->
         IF shift
         THEN [m |-> m,
               s |-> Session(<<"path", path>>, path, draggingPath, NaN, px, py, FALSE)]
         ELSE IF ctrl THEN dragSplit(splitEdge(m, item[2], px, py), path, px, py)
         ELSE [m |-> m,
               s |-> Session(item, path, draggingEdge, movingAction, px, py, FALSE)]
    [] item[1] = "path" ->
         [m |-> m,
          s |-> Session(item, path, draggingPath,
                        IF ~ctrl /\ ~shift THEN movingAction ELSE NaN,
                        px, py, FALSE)]
    [] OTHER ->
         [m |-> m,
          s |-> Session(item, NULL, draggingRoot, creatingPathAction, px, py, FALSE)]

\* a drag that goes on whether the root is read-only or not
drag_anyRoot(m, ro, item, px, py, ctrl, shift) ==
  dragStart(dragSelect(m, dragPath(m, item)), item, dragPath(m, item),
            px, py, ctrl, shift)

\* drag(event): the memory and the closure the handler leaves
drag(m, ro, item, px, py, ctrl, shift) ==
  IF ro THEN [m |-> dragSelect(m, dragPath(m, item)), s |-> Idle]
  ELSE dragStart(dragSelect(m, dragPath(m, item)), item, dragPath(m, item),
                 px, py, ctrl, shift)

\* lines 1959-1960
Clamp(q, size) == IF q < 0 THEN 0 ELSE IF q > size THEN size ELSE q

\* Math.sqrt(n), when it is an integer
Sqrt(n) ==
  IF \E k \in 0..n : k * k = n THEN CHOOSE k \in 0..n : k * k = n ELSE NaN

\* a / b, when it is an integer
Quotient(a, b) ==
  IF b = 0 \/ NaN \in {a, b} THEN NaN
  ELSE IF a >= 0
  THEN (IF a % b = 0 THEN a \div b ELSE NaN)
  ELSE (IF (0 - a) % b = 0 THEN 0 - ((0 - a) \div b) ELSE NaN)

\* a move that leaves the action as the pointer-down set it
moveBegin_keepAction(m, s, t) ==
  IF s.action = creatingPathAction /\ s.path = NULL
  THEN [m |-> createRectPath(m, s.px, s.py, s.px + 10, s.py + 10), t |-> t,
        s |-> [s EXCEPT !.path = Len(m.P) + 1, !.item = <<"path", Len(m.P) + 1>>]]
  ELSE [m |-> m, s |-> s, t |-> t]

\* lines 1962-1981: a move after ctrl on a vertex turns to moving; the first
\* move of a drag of the root creates the rectangle
moveBegin(m, s, t) ==
  IF s.action = deletingVertexAction
  THEN [m |-> m, t |-> t,
        s |-> [s EXCEPT !.action = movingAction, !.dragging = draggingVertex]]
  ELSE IF s.action = creatingPathAction /\ s.path = NULL
  THEN [m |-> createRectPath(m, s.px, s.py, s.px + 10, s.py + 10), t |-> t,
        s |-> [s EXCEPT !.path = Len(m.P) + 1, !.item = <<"path", Len(m.P) + 1>>]]
  ELSE [m |-> m, s |-> s, t |-> t]

\* lines 1983-1991, when there is no transform yet
moveTake(m, s, t, tr) ==
  [m |-> m, t |-> Append(t, tr),
   s |-> [s EXCEPT !.transform = Len(t) + 1, !.cx = tr.cx, !.cy = tr.cy,
                   !.vx = Sub(s.px, tr.cx), !.vy = Sub(s.py, tr.cy),
                   !.r = IF NaN \in {tr.cx, tr.cy} THEN NaN
                         ELSE Sqrt((s.px - tr.cx) * (s.px - tr.cx)
                                   + (s.py - tr.cy) * (s.py - tr.cy))]]

\* lines 1983-1991; new Transform of no item, or of a released one, throws
moveSnapshot(m, s, t) ==
  IF m.err \/ s.transform # NULL THEN [m |-> m, s |-> s, t |-> t]
  ELSE IF s.item[1] = "null" \/ TransformThrows(m, s.item)
  THEN [m |-> [m EXCEPT !.err = TRUE], s |-> s, t |-> t]
  ELSE moveTake(m, s, t, Transform(m, s.item))

\* lines 2007-2019: scale when shift is down, turn when ctrl is down
moveScale(s, vx2, vy2, r2, ctrl, shift) ==
  Options(NaN, NaN, NaN, NaN,
          IF shift \/ s.r = 0 THEN Quotient(r2, s.r) ELSE 1,
          IF ctrl THEN Quotient(Sub(Mul(s.vx, vy2), Mul(vx2, s.vy)), Mul(s.r, r2))
          ELSE 0,
          IF ctrl THEN Quotient(Add(Mul(s.vx, vx2), Mul(s.vy, vy2)), Mul(s.r, r2))
          ELSE 1)

\* lines 1993-2022: the options of a move to (px2, py2)
moveOptions(s, px2, py2, ctrl, shift) ==
  CASE s.action = movingAction ->
         Options(NaN, NaN, px2 - s.px, py2 - s.py, NaN, NaN, NaN)
    [] s.action = creatingPathAction ->
         [Options(s.px, s.py, NaN, NaN, Quotient(px2 - s.px, 10), NaN, NaN)
            EXCEPT !.sy = Quotient(py2 - s.py, 10)]
    [] OTHER ->
         moveScale(s, Sub(px2, s.cx), Sub(py2, s.cy),
                   IF NaN \in {s.cx, s.cy} THEN NaN
                   ELSE Sqrt((px2 - s.cx) * (px2 - s.cx) + (py2 - s.cy) * (py2 - s.cy)),
                   ctrl, shift)

\* line 2024
moveApply(m, s, t, options) ==
  IF m.err THEN [m |-> m, s |-> s, t |-> t]
  ELSE [m |-> transform(m, t[s.transform], options), s |-> s, t |-> t]

moveOn(b, px2, py2, ctrl, shift) ==
  moveApply(b.m, b.s, b.t, moveOptions(b.s, px2, py2, ctrl, shift))

moveFrom(b) == moveSnapshot(b.m, b.s, b.t)

\* move(event) with the pointer at (qx, qy): the memory, the closure and the
\* Transform objects the handler leaves
move(m, s, t, qx, qy, ctrl, shift) ==
  moveOn(moveFrom(moveBegin(m, s, t)), Clamp(qx, ClientWidth), Clamp(qy, ClientHeight),
         ctrl, shift)

\* the numbers of the move are numbers of the model: the centre of the
\* bounding box, the square roots and the quotients are integers
moveExactOptions(s, o) ==
  CASE s.action = movingAction -> TRUE
    [] s.action = creatingPathAction -> o.s # NaN /\ o.sy # NaN
    [] OTHER -> NaN \notin {o.s, o.sin, o.cos}

moveExact(b, px2, py2, ctrl, shift) ==
  IF b.m.err THEN TRUE
  ELSE /\ \/ b.t[b.s.transform].form = "vertex"
          \/ b.t[b.s.transform].centred
          \/ b.s.action = creatingPathAction
       /\ moveExactOptions(b.s, moveOptions(b.s, px2, py2, ctrl, shift))

\* an end that notifies nobody of the transform
end_silent(m, s, t, ctrl, shift) ==
  IF ~s.cancelled /\ s.action = deletingVertexAction /\ ctrl /\ ~shift
  THEN deleteVertex(m, s.item[2])
  ELSE m

\* lines 2028-2049: end(event); the listeners are removed first
end(m, s, t, ctrl, shift) ==
  IF s.cancelled THEN m
  ELSE IF s.action = deletingVertexAction
  THEN (IF ctrl /\ ~shift THEN deleteVertex(m, s.item[2]) ELSE m)
  ELSE IF s.transform # NULL THEN change(m, "transform", t[s.transform].path)
  ELSE m

\* lines 1926-1934: the rectangle of a cancelled drag of the root leaves
escapeCreated(m, s) ==
  IF s.path = NULL THEN m
  ELSE releasePath([m EXCEPT !.paths = SpliceOut(@, indexOf(@, s.path))], s.path)

\* lines 1937-1938: the transform with no options, then the split undone
escapeSplit(m, s) ==
  IF m.err \/ ~s.splitted THEN m
  ELSE IF s.item[1] = "null" THEN [m EXCEPT !.err = TRUE]
  ELSE deleteVertex(m, s.item[2])

escapeReset(m, s, t) ==
  IF s.transform = NULL THEN m ELSE transform(m, t[s.transform], NoOptions)

\* the handler of the escape key, lines 1924-1943, end(event) included
escape(m, s, t) ==
  IF s.action = creatingPathAction THEN escapeCreated(m, s)
  ELSE escapeSplit(escapeReset(m, s, t), s)

(***************************************************************************)
(* The handlers of the root: dblclick on the root's element and the keymap *)
(* of keydown on the container (tab, del and the four arrows).             *)
(***************************************************************************)
\* dblclick(event), lines 2057-2087: a vertex is deleted, an edge is split
\* at the pointer
dblclick(m, ro, item, px, py) ==
  IF item[1] \notin {"vertex", "edge"} \/ ro THEN m
  ELSE IF item[1] = "vertex" THEN deleteVertex(m, item[2])
  ELSE splitEdge(m, item[2], px, py)

\* lines 2117-2135: the index (from 1) of the first selected path, 0 if none
RECURSIVE firstSelected(_, _)
firstSelected(m, i) ==
  IF i > Len(m.paths) THEN 0
  ELSE IF selected(m, m.paths[i]) THEN i ELSE firstSelected(m, i + 1)

\* the handler of the tab key: the path after the first selected one, or the
\* one before it when shift is down, is selected alone
keyTab(m, shift) ==
  LET i == firstSelected(m, 1)
      c == Len(m.paths)
  IN IF i = 0 THEN m
     ELSE selectPath(m, m.paths[IF shift THEN (IF i = 1 THEN c ELSE i - 1)
                                ELSE (IF i = c THEN 1 ELSE i + 1)])

\* a delete loop that notifies after the release
keyDeleteLoop_releaseFirst(m, i, index) ==
  [m |-> change(releasePath([m EXCEPT !.paths = SpliceOut(@, i - 1)], m.paths[i]),
                "remove", m.paths[i]),
   index |-> i]

\* lines 2157-2160: the selected path at index i (from 1) leaves the list,
\* the listener is notified and the path is released
keyDeleteLoop(m, i, index) ==
  [m |-> releasePath(change([m EXCEPT !.paths = SpliceOut(@, i - 1)],
                            "remove", m.paths[i]), m.paths[i]),
   index |-> i]

\* lines 2151-2162: for(var i = paths.length; i--;)
RECURSIVE keyDeleteFrom(_, _, _)
keyDeleteFrom(m, i, index) ==
  IF i = 0 THEN [m |-> m, index |-> index]
  ELSE IF selected(m, m.paths[i])
  THEN keyDeleteFrom(keyDeleteLoop(m, i, index).m, i - 1, i)
  ELSE keyDeleteFrom(m, i - 1, index)

\* line 2164; root.paths[index] is undefined past the end of the list and
\* when nothing was removed
keyDeleteSelect(m, index) ==
  IF Len(m.paths) = 0 THEN m
  ELSE selectPath(m, IF index # NaN /\ index <= Len(m.paths)
                     THEN m.paths[index] ELSE NULL)

\* the handler of the del key, lines 2140-2165
keyDelete(m, ro) ==
  IF ro THEN m
  ELSE keyDeleteSelect(keyDeleteFrom(m, Len(m.paths), NaN).m,
                       keyDeleteFrom(m, Len(m.paths), NaN).index)

\* lines 2264-2267
keyOutside(cx, cy) ==
  \/ cx # NaN /\ (cx < 0 \/ cx > ClientWidth)
  \/ cy # NaN /\ (cy < 0 \/ cy > ClientHeight)

\* a scan that drops the paths whose centre would leave the working area
\* and keeps the others
RECURSIVE keyTransformScan_skip(_, _, _, _)
keyTransformScan_skip(m, options, i, transforms) ==
  IF i > Len(m.paths) THEN [ok |-> TRUE, transforms |-> transforms]
  ELSE IF ~selected(m, m.paths[i])
  THEN keyTransformScan_skip(m, options, i + 1, transforms)
  ELSE IF keyOutside(Add(Transform(m, <<"path", m.paths[i]>>).cx, OrZero(options.dx)),
                     Add(Transform(m, <<"path", m.paths[i]>>).cy, OrZero(options.dy)))
  THEN keyTransformScan_skip(m, options, i + 1, transforms)
  ELSE keyTransformScan_skip(m, options, i + 1,
                             Append(transforms, Transform(m, <<"path", m.paths[i]>>)))

\* lines 2244-2271: the transforms of the selected paths; nothing is done
\* when the centre of one of them would leave the working area
RECURSIVE keyTransformScan(_, _, _, _)
keyTransformScan(m, options, i, transforms) ==
  IF i > Len(m.paths) THEN [ok |-> TRUE, transforms |-> transforms]
  ELSE IF ~selected(m, m.paths[i])
  THEN keyTransformScan(m, options, i + 1, transforms)
  ELSE IF keyOutside(Add(Transform(m, <<"path", m.paths[i]>>).cx, OrZero(options.dx)),
                     Add(Transform(m, <<"path", m.paths[i]>>).cy, OrZero(options.dy)))
  THEN [ok |-> FALSE, transforms |-> <<>>]
  ELSE keyTransformScan(m, options, i + 1,
                        Append(transforms, Transform(m, <<"path", m.paths[i]>>)))

\* lines 2273-2277: transforms.forEach
RECURSIVE keyTransformApply(_, _, _, _)
keyTransformApply(m, transforms, options, i) ==
  IF m.err \/ i > Len(transforms) THEN m
  ELSE keyTransformApply(
         IF transform(m, transforms[i], options).err
         THEN transform(m, transforms[i], options)
         ELSE change(transform(m, transforms[i], options), "transform",
                     transforms[i].path),
         transforms, options, i + 1)

\* keyTransform(root, options), lines 2231-2278
keyTransform(m, ro, options) ==
  IF ro THEN m
  ELSE keyTransformApply(m, keyTransformScan(m, options, 1, <<>>).transforms,
                         options, 1)

\* the options of the handlers of the arrow keys, lines 2168-2206: a scale
\* of 1.1 or 1 / 1.1 (a pair of a numerator and a denominator here) when
\* shift is down, a turn of 5 degrees when ctrl is down, a shift by 5
\* otherwise
keyArrow(key, ctrl, shift) ==
  CASE shift ->
         [NoOptions EXCEPT !.s = IF key \in {"up", "right"} THEN <<11, 10>>
                                 ELSE <<10, 11>>]
    [] ctrl -> [NoOptions EXCEPT !.angle = IF key \in {"left", "up"} THEN -5 ELSE 5]
    [] key = "left" -> Options(NaN, NaN, -5, NaN, NaN, NaN, NaN)
    [] key = "up" -> Options(NaN, NaN, NaN, -5, NaN, NaN, NaN)
    [] key = "down" -> Options(NaN, NaN, NaN, 5, NaN, NaN, NaN)
    [] OTHER -> Options(NaN, NaN, 5, NaN, NaN, NaN, NaN)

(***************************************************************************)
(* The svgSelection directive: updateRoot, loadImage and the handler of    *)
(* the scope's $destroy event.  The memory's sc holds the closure.         *)
(***************************************************************************)
RECURSIVE updateRootLoop(_, _)

\* updateRoot, lines 148-164: the Path at hand (the memory's ret) is tagged
\* with its entry, or the entry is dropped when insert returned null
updateRootTag(m, i, oid) ==
  IF m.err THEN m
  ELSE IF m.ret = NULL
  THEN updateRootLoop([m EXCEPT !.sc.svgSelection = SpliceOut(@, i)], i)
  ELSE updateRootLoop(
         [(IF selected(m, m.ret) # m.sc.O[oid].selected
           THEN setSelected(m, m.ret, m.sc.O[oid].selected) ELSE m)
            EXCEPT !.sc = setTag(m.sc, m.ret, oid, m.sc.O[oid].path)],
         i + 1)

\* updateRoot, lines 138-146: root.insert of the scaled path at index i
updateRootInsert(m, i, oid) ==
  IF m.err THEN m
  ELSE updateRootTag(
         insert(m, scalePath(m.sc.O[oid].path, ClientWidth, m.sc.size.width),
                m.sc.O[oid].selected, i),
         i, oid)

\* updateRoot, lines 126-136: the Path at index i is kept when it carries
\* this entry and this entry's path, and removed otherwise
updateRootPath(m, i, oid, path) ==
  IF path # NULL /\ tagOf(m.sc, path).selection = oid
                 /\ tagOf(m.sc, path).selectionPath = m.sc.O[oid].path
  THEN updateRootTag([m EXCEPT !.ret = path], i, oid)
  ELSE updateRootInsert(IF path # NULL THEN remove(m, i) ELSE m, i, oid)

\* updateRoot, lines 114-124: the loop over scope.svgSelection, i 0-based
updateRootLoop(m, i) ==
  IF m.err \/ i >= Len(m.sc.svgSelection) THEN m
  ELSE IF m.sc.svgSelection[i + 1] = NULL
          \/ m.sc.O[m.sc.svgSelection[i + 1]].path = <<>>
  THEN updateRootLoop([m EXCEPT !.sc.svgSelection = SpliceOut(@, i)], i)
  ELSE updateRootPath(m, i, m.sc.svgSelection[i + 1], get(m, i))

\* updateRoot, lines 167-170: while (root.length > selections.length)
RECURSIVE updateRootTrim(_)
updateRootTrim(m) ==
  IF m.err \/ Len(m.paths) <= Len(m.sc.svgSelection) THEN m
  ELSE updateRootTrim(remove(m, Len(m.paths) - 1))

\* updateRoot(); the $applyAsync of a changed array is the digest that
\* follows the handler
updateRoot(m) ==
  IF m.sc.updating > 0 \/ m.sc.size = NoSize THEN m
  ELSE LET m1 == updateRootTrim(updateRootLoop(
                   [m EXCEPT !.sc.svgSelection = IF m.sc.bound THEN @ ELSE <<>>,
                             !.sc.bound = TRUE,
                             !.sc.updating = @ + 1], 0))
       IN [m1 EXCEPT !.sc.updating = @ - 1, !.sc.done = ~m1.err]

\* a digest: the deep watch of scope.svgSelection calls updateRoot while
\* the array differs from what the watch saw last
RECURSIVE digest(_)
digest(m) ==
  IF m.err \/ ~m.sc.root
     \/ SelectionValue(m.sc.O, m.sc.svgSelection) = m.sc.watched
  THEN m
  ELSE digest(updateRoot(
         [m EXCEPT !.sc.watched = SelectionValue(m.sc.O, m.sc.svgSelection)]))

\* getImageSize(url, callback) up to its return: a new Image with a "load"
\* listener (on) and the url as its src; cancel is the unregister function
\* of on while it is not null; the result, off, is the image's index
getImageSize(m, url) ==
  [m EXCEPT !.sc.images = Append(@, [url |-> url, src |-> url, cancel |-> TRUE,
                                     fired |-> FALSE, calls |-> <<>>]),
            !.ret = Len(m.sc.images) + 1]

\* an off that leaves the listener and the src in place
off_keep(m, k) == m

\* off() of getImageSize for image k
off(m, k) ==
  IF m.sc.images[k].cancel
  THEN [m EXCEPT !.sc.images[k].cancel = FALSE, !.sc.images[k].src = ""]
  ELSE m

\* cancelLoading(): angular.noop (NULL) or the off of the last getImageSize
cancelLoading(m) ==
  IF m.sc.cancelLoading = NULL THEN m ELSE off(m, m.sc.cancelLoading)

\* loadImage(url), the listener of the watch of scope.imageSrc
loadImageDone(m) == [m EXCEPT !.sc.cancelLoading = m.ret]

loadImage(m, url) == loadImageDone(getImageSize(cancelLoading(m), url))

\* the callback loadImage passes to getImageSize, for image k; calls records
\* when it ran; without a root, element is undefined and element.style
\* raises a TypeError
sizeCallback(m, k) ==
  IF m.sc.root
  THEN updateRoot(
         [m EXCEPT !.sc.size = ImageSize(m.sc.images[k].url),
                   !.sc.images[k].calls =
                      Append(@, [current |-> k = Len(m.sc.images),
                                 cancelled |-> ~m.sc.images[k].cancel,
                                 destroyed |-> FALSE])])
  ELSE [m EXCEPT !.sc.size = ImageSize(m.sc.images[k].url),
                 !.sc.images[k].calls =
                    Append(@, [current |-> k = Len(m.sc.images),
                               cancelled |-> ~m.sc.images[k].cancel,
                               destroyed |-> TRUE]),
                 !.err = TRUE]

\* the "load" listener of getImageSize: callback(...), then off()
imageLoaded(m, k) ==
  IF sizeCallback(m, k).err THEN sizeCallback(m, k) ELSE off(sizeCallback(m, k), k)

\* the browser fires "load" at image k: its listener runs when registered
load(m, k) ==
  IF m.sc.images[k].cancel
  THEN imageLoaded([m EXCEPT !.sc.images[k].fired = TRUE], k)
  ELSE [m EXCEPT !.sc.images[k].fired = TRUE]

\* Root.release(): the paths are released and the array emptied
releaseRoot(m) == [releasePaths(m, m.paths) EXCEPT !.paths = <<>>]

\* the listener of the scope's $destroy event
destroy(m) ==
  IF m.sc.root
  THEN [releaseRoot(cancelLoading([m EXCEPT !.sc.size = NoSize,
                                            !.sc.cancelChange = FALSE]))
          EXCEPT !.sc.root = FALSE]
  ELSE cancelLoading([m EXCEPT !.sc.size = NoSize, !.sc.cancelChange = FALSE])

\* link(scope, element, attrs) and the first digest, for the bindings
\* imageSrc = url and svgSelection = the objects O in this order (bound), or
\* undefined
link(url, O, bound) ==
  loadImage(
    [EmptyMem EXCEPT !.sc = [NoScope EXCEPT !.root = TRUE, !.cancelChange = TRUE,
                                            !.imageSrc = url, !.bound = bound,
                                            !.O = O,
                                            !.svgSelection = Ids(1, Len(O)),
                                            !.watched = O]],
    url)

(***************************************************************************)
(* The API calls as actions.  Call(m, op, arg) commits the memory m that   *)
(* the call op(arg) leaves.                                                *)
(***************************************************************************)
CallN(m, op, arg, t, s, g, n) ==
  /\ T' = t
  /\ session' = s /\ gesture' = g /\ nested' = n /\ UNCHANGED readonly
  /\ listener' = m.seen /\ scope' = m.sc
  /\ P' = m.P /\ V' = m.V /\ E' = m.E /\ S' = m.S /\ paths' = m.paths
  /\ last' = [op |-> op, arg |-> arg, ret |-> m.ret, ev |-> m.ev, err |-> m.err,
              at |-> m.at]
  /\ called' = IF op = "deleteVertex" /\ V[arg[1]].element
               THEN called \cup {arg[1]} ELSE called
  /\ taken' = IF Len(t) > Len(T)
              THEN Append(taken, [V |-> V, E |-> E, S |-> S]) ELSE taken

CallS(m, op, arg, t, s, g) == CallN(m, op, arg, t, s, g, nested)

CallT(m, op, arg, t) == CallS(m, op, arg, t, session, gesture)

Call(m, op, arg) == CallT(m, op, arg, T)

NoCall == [op |-> "new", arg |-> <<>>, ret |-> NULL, ev |-> <<>>, err |-> FALSE,
           at |-> <<>>]

Insert ==
  \E d \in Descriptors, sel \in BOOLEAN, index \in Indexes :
    Call(insert(Mem, d, sel, index), "insert", <<d, sel, index>>)

Remove ==
  \E index \in Indexes \ {NaN} : Call(remove(Mem, index), "remove", <<index>>)

Clear == Call(clear(Mem), "clear", <<>>)

\* root.get(index): the result is the call's return value
Get ==
  \E index \in Indexes \ {NaN} :
    Call([Mem EXCEPT !.ret = get(Mem, index)], "get", <<index>>)

CreateRectPath ==
  Call(createRectPath(Mem, 0, 0, 10, 10), "createRectPath", <<0, 0, 10, 10>>)

SplitEdge ==
  \E edge \in DOMAIN E, p \in SplitPoints :
    Call(splitEdge(Mem, edge, p[1], p[2]), "splitEdge", <<edge, p[1], p[2]>>)

DeleteVertex ==
  \E vertex \in DOMAIN V :
    Call(deleteVertex(Mem, vertex), "deleteVertex", <<vertex>>)

Items ==
  ({"path"} \X DOMAIN P) \cup ({"vertex"} \X DOMAIN V) \cup ({"edge"} \X DOMAIN E)

\* new Transform(item)
NewTransform ==
  \E item \in Items :
    IF TransformThrows(Mem, item)
    THEN Call([Mem EXCEPT !.err = TRUE], "Transform", item)
    ELSE CallT([Mem EXCEPT !.ret = Len(T) + 1], "Transform", item,
               Append(T, Transform(Mem, item)))

\* t.transform(options) with options of the set O.  A whole-path transform
\* is called without options.cx or options.cy when the model has a number for
\* the centre of the snapshot's bounding box.
TransformCallOf(O) ==
  \E t \in DOMAIN T, options \in O :
    /\ \/ T[t].form = "vertex" \/ T[t].centred
       \/ (options.cx # NaN /\ options.cy # NaN)
    /\ Call(transform(Mem, T[t], options), "transform", <<t, options>>)

TransformCall == TransformCallOf(TransformOptions)

(***************************************************************************)
(* Spec: a Root, empty after construction, under at most MaxOps calls.     *)
(***************************************************************************)
Init ==
  /\ paths = <<>> /\ P = <<>> /\ V = <<>> /\ E = <<>> /\ S = <<>>
  /\ last = NoCall
  /\ T = <<>>
  /\ nops = 0
  /\ called = {}
  /\ taken = <<>>
  /\ readonly = FALSE /\ session = Idle /\ gesture = NoGesture /\ nested = Idle
  /\ listener = <<>> /\ scope = NoScope

Counted(A) == nops < MaxOps /\ A /\ nops' = nops + 1

Next ==
  \/ Counted(Insert)
  \/ Counted(Remove)
  \/ Counted(Get)
  \/ Counted(Clear)
  \/ Counted(CreateRectPath)
  \/ Counted(SplitEdge)
  \/ Counted(DeleteVertex)

Spec == Init /\ [][Next]_vars

(***************************************************************************)
(* SpecRoot: a Root, empty after construction, under at most MaxOps calls  *)
(* of insert, remove, get and clear.                                       *)
(***************************************************************************)
RootDescriptors == {DTriangle, DCubicSelfLoop, DEmpty}

RootInsert ==
  \E d \in RootDescriptors, sel \in BOOLEAN, index \in Indexes :
    Call(insert(Mem, d, sel, index), "insert", <<d, sel, index>>)

NextRoot ==
  \/ Counted(RootInsert)
  \/ Counted(Remove)
  \/ Counted(Get)
  \/ Counted(Clear)

SpecRoot == Init /\ [][NextRoot]_vars

(***************************************************************************)
(* SpecEdit: one Path, just created by Root.insert or createRectPath in an *)
(* empty Root, under any sequence of deleteVertex and splitEdge calls.     *)
(***************************************************************************)
CreatedHeaps(m, op, arg) ==
  /\ paths = m.paths /\ P = m.P /\ V = m.V /\ E = m.E /\ S = m.S
  /\ last = [op |-> op, arg |-> arg, ret |-> m.ret, ev |-> m.ev, err |-> m.err,
             at |-> m.at]
  /\ T = <<>>
  /\ nops = 0
  /\ called = {}
  /\ taken = <<>>
  /\ session = Idle /\ gesture = NoGesture /\ nested = Idle
  /\ listener = m.seen /\ scope = m.sc

Created(m, op, arg) == CreatedHeaps(m, op, arg) /\ readonly = FALSE

InitEdit ==
  \/ \E d \in Descriptors :
       Created(insert(EmptyMem, d, FALSE, NaN), "insert", <<d, FALSE, NaN>>)
  \/ Created(createRectPath(EmptyMem, 0, 0, 10, 10), "createRectPath",
             <<0, 0, 10, 10>>)

NextEdit ==
  \/ (Len(E) < MaxEdges /\ SplitEdge /\ UNCHANGED nops)
  \/ (DeleteVertex /\ UNCHANGED nops)

SpecEdit == InitEdit /\ [][NextEdit]_vars

(***************************************************************************)
(* SpecTransform: one Path, just created, under at most MaxOps calls of    *)
(* splitEdge, deleteVertex, new Transform over one of its items, and       *)
(* transform of a Transform constructed before.                            *)
(***************************************************************************)
TransformDescriptors == {DQuadLoop, DArcLoop, DTwoSubpaths}

InitTransform ==
  \E d \in TransformDescriptors :
    Created(insert(EmptyMem, d, FALSE, NaN), "insert", <<d, FALSE, NaN>>)

NextTransform ==
  \/ Counted(SplitEdge)
  \/ Counted(DeleteVertex)
  \/ Counted(NewTransform)
  \/ Counted(TransformCall)

SpecTransform == InitTransform /\ [][NextTransform]_vars

(***************************************************************************)
(* SpecSnapshot: one Path, just created and never edited, under at most    *)
(* MaxOps calls of new Transform over one of its items and of transform of *)
(* a Transform constructed before.                                         *)
(***************************************************************************)
SnapshotDescriptors == {DRect, DCurve, DQuadLoop, DArcLoop}

InitSnapshot ==
  \E d \in SnapshotDescriptors :
    Created(insert(EmptyMem, d, FALSE, NaN), "insert", <<d, FALSE, NaN>>)

NextSnapshot ==
  \/ Counted(NewTransform)
  \/ Counted(TransformCallOf(SnapshotOptions))

SpecSnapshot == InitSnapshot /\ [][NextSnapshot]_vars

(***************************************************************************)
(* SpecNorm: the Path constructor alone.  A Path is constructed over a     *)
(* parsed "d" attribute (a segment list that starts with a moveto), and    *)
(* then another Path over the segment list the first one was left with.    *)
(***************************************************************************)
\* longest "d" attribute, in commands
MaxLen == 4

NormCommands ==
  { createSVGPathSegMovetoAbs(0, 0), createSVGPathSegMovetoAbs(3, 3),
    Rel(createSVGPathSegMovetoAbs(3, 0), "m"),
    createSVGPathSegLinetoAbs(3, 0),
    Rel(createSVGPathSegLinetoAbs(0, 3), "l"),
    createSVGPathSegCurvetoCubicAbs(0, 3, 3, 0, 3, 3),
    Quad("Q", 3, 3, 3, 0),
    createSVGPathSegClosePath }

NormDescriptors ==
  {d \in UNION {[1..n -> NormCommands] : n \in 0..MaxLen} :
     d # <<>> => d[1].t \in {"M", "m"}} \cup {DRect}

\* new Path(element, root) over an attribute d of the set D
NewPathOf(D) ==
  /\ P = <<>>
  /\ \E d \in D : Call(Path(Mem, d), "Path", <<d>>)
  /\ UNCHANGED nops

NewPath == NewPathOf(NormDescriptors)

\* new Path(element, root) over the segment list the first Path has
Renormalize ==
  /\ Len(P) = 1
  /\ Call(Path(Mem, SegValues(Mem, 1)), "Path", <<SegValues(Mem, 1)>>)
  /\ UNCHANGED nops

NextNorm == NewPath \/ Renormalize

SpecNorm == Init /\ [][NextNorm]_vars

(***************************************************************************)
(* SpecShorthand: the Path constructor over one subpath "M 0 0 ..." of     *)
(* lines, curves and their shorthands, absolute and relative.              *)
(***************************************************************************)
ShorthandCommands ==
  { createSVGPathSegLinetoAbs(3, 3),
    createSVGPathSegCurvetoCubicAbs(6, 0, 0, 3, 6, 3),
    Rel(createSVGPathSegCurvetoCubicAbs(3, 0, 0, 3, 3, 3), "c"),
    Smooth("S", 3, 6, 0, 6), Smooth("s", 3, 3, 3, 0),
    Quad("Q", 3, 3, 6, 0), Quad("q", 3, 3, 6, 0),
    SmoothQuad("T", 0, 6), SmoothQuad("t", 6, 0),
    Horizontal("H", 6), Horizontal("h", 3),
    Vertical("V", 6), Vertical("v", 3) }

ShorthandDescriptors ==
  {<<createSVGPathSegMovetoAbs(0, 0)>> \o d :
     d \in UNION {[1..n -> ShorthandCommands] : n \in 1..(MaxLen - 1)}}

NextShorthand == NewPathOf(ShorthandDescriptors) \/ Renormalize

SpecShorthand == Init /\ [][NextShorthand]_vars

(***************************************************************************)
(* SpecSegments: the Path constructor over any sequence of commands, with  *)
(* or without a leading moveto, relative forms and a segment of unknown    *)
(* type among them.                                                        *)
(***************************************************************************)
\* a segment whose pathSegTypeAsLetter is none of the letters of the switch
Unknown ==
  Seg("?", NaN, NaN, NaN, NaN, NaN, NaN, NaN, NaN, NaN, NaN, NaN)

SegmentCommands ==
  { createSVGPathSegMovetoAbs(3, 3),
    Rel(createSVGPathSegMovetoAbs(3, 0), "m"),
    createSVGPathSegLinetoAbs(3, 0),
    Rel(createSVGPathSegLinetoAbs(0, 3), "l"),
    Rel(createSVGPathSegCurvetoCubicAbs(3, 0, 0, 3, 3, 3), "c"),
    Rel(createSVGPathSegArcAbs(3, 3, 3, 3, 0, 0, 1), "a"),
    Vertical("v", 3),
    createSVGPathSegClosePath,
    Unknown }

SegmentDescriptors ==
  UNION {[1..n -> SegmentCommands] : n \in 1..MaxLen}

NextSegments == NewPathOf(SegmentDescriptors) \/ Renormalize

SpecSegments == Init /\ [][NextSegments]_vars

(***************************************************************************)
(* SpecRect: createRectPath over the sides of RectSides, rectangles of no  *)
(* width or no height among them.                                          *)
(***************************************************************************)
RectSides == {0, 10}

CreateRectPathOf(sides) ==
  \E left, top, right, bottom \in sides :
    Call(createRectPath(Mem, left, top, right, bottom), "createRectPath",
         <<left, top, right, bottom>>)

NextRect == Counted(CreateRectPathOf(RectSides))

SpecRect == Init /\ [][NextRect]_vars

(***************************************************************************)
(* SpecDrag: a Root holding one Path, selected or not, read-only or not,   *)
(* under one drag session: a pointer-down on the path, one of its vertices *)
(* or edges, or the root, with or without ctrl and shift; at most MaxMoves *)
(* pointer moves; and the pointer-up or the escape key.                    *)
(***************************************************************************)
\* "M 0 0 L 6 0 L 6 6 L 0 6 z": a square
DSquare == << createSVGPathSegMovetoAbs(0, 0), createSVGPathSegLinetoAbs(6, 0),
              createSVGPathSegLinetoAbs(6, 6), createSVGPathSegLinetoAbs(0, 6),
              createSVGPathSegClosePath >>

DragDescriptors == {DSquare, DCurve}

\* number of pointer moves in a session
MaxMoves == 2

\* where the pointer goes down, and where it moves to (outside of the client
\* rectangle too)
PressPoints == {<<6, 3>>, <<3, 0>>}
MovePoints == {<<9, 3>>, <<3, 6>>, <<-3, 3>>, <<16, 13>>}

\* the items whose element is in the document, and the root
DragTargets ==
  {item \in Items :
     CASE item[1] = "path" -> P[item[2]].element
       [] item[1] = "vertex" -> V[item[2]].element
       [] OTHER -> E[item[2]].element} \cup {<<"root", NULL>>}

InitDrag ==
  /\ \E d \in DragDescriptors, sel \in BOOLEAN :
       CreatedHeaps(insert(EmptyMem, d, sel, NaN), "insert", <<d, sel, NaN>>)
  /\ readonly \in BOOLEAN

Pressed(d, item, p, ctrl, shift) ==
  CallS(d.m, "drag", <<item, p[1], p[2], ctrl, shift>>, T, d.s,
        [phase |-> IF d.s.active THEN "open" ELSE "refused",
         target |-> item, ctrl |-> ctrl, shift |-> shift,
         before |-> [paths |-> paths, P |-> P, V |-> V, E |-> E, S |-> S],
         moves |-> 0, ev |-> d.m.ev, deleted |-> <<>>])

\* mousedown on one of the items, at one of the points
PressOf(items, points) ==
  /\ ~session.active /\ gesture.phase = "none"
  /\ \E item \in items, p \in points, ctrl, shift \in BOOLEAN :
       Pressed(drag(Mem, readonly, item, p[1], p[2], ctrl, shift), item, p, ctrl, shift)
  /\ UNCHANGED nops

Press == PressOf(DragTargets, PressPoints)

Moved(r, q, ctrl, shift) ==
  CallS(r.m, "move", <<q[1], q[2], ctrl, shift>>, r.t, r.s,
        [gesture EXCEPT !.moves = @ + 1, !.ev = @ \o r.m.ev])

\* mousemove while the listeners are registered; the handler reads ctrl and
\* shift when it scales or turns only
MoveOf(points) ==
  /\ session.active /\ gesture.moves < MaxMoves
  /\ \E q \in points,
        ctrl, shift \in (IF session.action = NaN THEN BOOLEAN ELSE {FALSE}) :
       /\ moveExact(moveFrom(moveBegin(Mem, session, T)),
                    Clamp(q[1], ClientWidth), Clamp(q[2], ClientHeight), ctrl, shift)
       /\ Moved(move(Mem, session, T, q[1], q[2], ctrl, shift), q, ctrl, shift)
  /\ UNCHANGED nops

Move == MoveOf(MovePoints)

Ended(m, ctrl, shift) ==
  CallS(m, "end", <<ctrl, shift>>, T, Idle,
        [gesture EXCEPT !.phase = "up", !.ev = @ \o m.ev,
                        !.deleted = IF session.action = deletingVertexAction
                                       /\ ctrl /\ ~shift
                                    THEN Append(@, session.item[2]) ELSE @])

\* mouseup while the listeners are registered; the handler reads ctrl and
\* shift after ctrl on a vertex only
Release ==
  /\ session.active
  /\ \E ctrl, shift \in (IF session.action = deletingVertexAction
                          THEN BOOLEAN ELSE {FALSE}) :
       Ended(end(Mem, session, T, ctrl, shift), ctrl, shift)
  /\ UNCHANGED nops

Cancelled(m) ==
  CallS(m, "escape", <<>>, T, IF m.err THEN session ELSE Idle,
        [gesture EXCEPT !.phase = IF m.err THEN @ ELSE "cancelled",
                        !.ev = @ \o m.ev,
                        !.deleted = IF session.action # creatingPathAction
                                       /\ session.splitted
                                       /\ session.item[1] # "null"
                                    THEN Append(@, session.item[2]) ELSE @])

\* keydown of the escape key while the listeners are registered; a key
\* whose handler raised is not pressed again at once
Cancel ==
  /\ session.active /\ ~(last.op = "escape" /\ last.err)
  /\ Cancelled(escape(Mem, session, T))
  /\ UNCHANGED nops

NextDrag == Press \/ Move \/ Release \/ Cancel

SpecDrag == InitDrag /\ [][NextDrag]_vars

(***************************************************************************)
(* SpecKeys: a Root, not read-only, holding up to MaxPaths squares, each   *)
(* selected or not, under at most MaxKeys keys pressed on the container:   *)
(* tab, del and the arrows.                                                *)
(***************************************************************************)
\* "M 6 6 L 12 6 L 12 12 L 6 12 z": a square whose centre leaves the working
\* area on the second step to the right or down
DFarSquare == << createSVGPathSegMovetoAbs(6, 6), createSVGPathSegLinetoAbs(12, 6),
                 createSVGPathSegLinetoAbs(12, 12), createSVGPathSegLinetoAbs(6, 12),
                 createSVGPathSegClosePath >>

KeyDescriptors == {DSquare, DFarSquare}

\* number of paths of the root
MaxPaths == 3

\* number of double clicks and keys of the container in a behaviour
MaxKeys == 2

Keyed(A) == nops < MaxKeys /\ A /\ nops' = nops + 1

\* root.insert for each descriptor of a list of pairs of a descriptor and
\* its selected option
RECURSIVE InsertAll(_, _)
InsertAll(m, ds) ==
  IF ds = <<>> THEN m
  ELSE InsertAll(insert(m, Head(ds)[1], Head(ds)[2], NaN), Tail(ds))

InitKeys ==
  /\ \E n \in 1..MaxPaths :
       \E ds \in [1..n -> KeyDescriptors \X BOOLEAN] :
         CreatedHeaps(InsertAll(EmptyMem, ds), "insert", ds)
  /\ readonly = FALSE

\* keydown of the tab key on the container
KeyTab == \E shift \in BOOLEAN : Call(keyTab(Mem, shift), "tab", <<shift>>)

\* keydown of the del key on the container
KeyDelete == Call(keyDelete(Mem, readonly), "del", <<>>)

\* the model has a number for the centre of every selected path
KeyExact ==
  \A i \in 1..Len(paths) :
    selected(Mem, paths[i]) => Transform(Mem, <<"path", paths[i]>>).centred

\* keydown of an arrow key on the container.  The scale and the turn of
\* the arrows with shift or ctrl down are no integers: these keys are pressed
\* on a read-only root only, where the handler returns before it reads its
\* options.
KeyArrowOf(arrows) ==
  /\ KeyExact
  /\ \E key \in arrows,
        ctrl, shift \in (IF readonly THEN BOOLEAN ELSE {FALSE}) :
       Call(keyTransform(Mem, readonly, keyArrow(key, ctrl, shift)), "arrow",
            <<key, ctrl, shift>>)

KeyArrow == KeyArrowOf({"left", "up", "down", "right"})

NextKeys == Keyed(KeyTab) \/ Keyed(KeyDelete) \/ Keyed(KeyArrow)

SpecKeys == InitKeys /\ [][NextKeys]_vars

(***************************************************************************)
(* SpecInput: a Root, not read-only, holding a square, selected or not,    *)
(* under one drag session with at most MaxKeys other events between its    *)
(* pointer-down and its end: a double click on a vertex or an edge and the *)
(* keys of the container.                                                  *)
(***************************************************************************)
\* dblclick on one of the items, at one of the points
DblClickOf(items, points) ==
  \E item \in items, p \in points :
    Call(dblclick(Mem, readonly, item, p[1], p[2]), "dblclick", <<item, p[1], p[2]>>)

DblClick == DblClickOf(DragTargets, PressPoints)

\* an event between the pointer-down and the end of its session
During(A) == session.active /\ Keyed(A)

\* the square, selected or not, in a root that is not read-only
InitInput ==
  /\ \E sel \in BOOLEAN :
       CreatedHeaps(insert(EmptyMem, DSquare, sel, NaN), "insert", <<DSquare, sel, NaN>>)
  /\ readonly = FALSE

\* the path, its first vertex and its first edge, and the root; the pointer
\* goes down at (3, 0) and moves by (6, 3) or by (10, 10)
InputTargets ==
  DragTargets \cap {<<"path", 1>>, <<"vertex", 1>>, <<"edge", 1>>, <<"root", NULL>>}

InputPress == PressOf(InputTargets, {<<3, 0>>})

InputMove == MoveOf({<<9, 3>>, <<13, 10>>})

InputDblClick == DblClickOf(InputTargets, {<<3, 0>>})

InputArrow == KeyArrowOf({"up", "right"})

NextInput ==
  \/ InputPress \/ InputMove \/ Release \/ Cancel
  \/ During(InputDblClick) \/ During(KeyTab) \/ During(KeyDelete)
  \/ During(InputArrow)

SpecInput == InitInput /\ [][NextInput]_vars

(***************************************************************************)
(* SpecReadonly: a read-only Root holding one Path, selected or not, under *)
(* a pointer-down and at most MaxKeys double clicks and keys of the        *)
(* container.  The pointer-down registers no listener, so that the pointer *)
(* moves, the pointer-up and the escape key that follow it reach no        *)
(* handler.                                                                *)
(***************************************************************************)
InitReadonly ==
  /\ \E d \in DragDescriptors, sel \in BOOLEAN :
       CreatedHeaps(insert(EmptyMem, d, sel, NaN), "insert", <<d, sel, NaN>>)
  /\ readonly = TRUE

NextReadonly ==
  \/ Press
  \/ Keyed(DblClick) \/ Keyed(KeyTab) \/ Keyed(KeyDelete) \/ Keyed(KeyArrow)

SpecReadonly == InitReadonly /\ [][NextReadonly]_vars

(***************************************************************************)
(* SpecSessions: a Root, not read-only, holding a square, under pointer    *)
(* events with two buttons.  drag is the listener of every mousedown on    *)
(* the root's element: a second mousedown, while the listeners of the      *)
(* first session are registered on the document, registers its own.  A     *)
(* mousemove, a mouseup or a keydown on the document runs the listeners of *)
(* every session, in the order of their registration; an error raised by   *)
(* one listener does not stop the next.                                    *)
(***************************************************************************)
\* the memory a listener starts from, after the listener that left m
After(m) == [m EXCEPT !.ev = <<>>, !.at = <<>>, !.err = FALSE]

\* the memory two listeners leave, m1 the first and m2 the second
Both(m1, m2) ==
  [m2 EXCEPT !.ev = m1.ev \o m2.ev, !.at = m1.at \o m2.at, !.err = m1.err \/ m2.err]

\* the mousemove listeners of both sessions, r the result of the first
MovedBoth(r, q) ==
  CallN(Both(r.m, move(After(r.m), nested, r.t, q[1], q[2], FALSE, FALSE).m),
        "move", <<q[1], q[2], FALSE, FALSE>>,
        move(After(r.m), nested, r.t, q[1], q[2], FALSE, FALSE).t,
        r.s, [gesture EXCEPT !.moves = @ + 1],
        move(After(r.m), nested, r.t, q[1], q[2], FALSE, FALSE).s)

\* the second mousedown
PressAgain ==
  /\ session.active /\ ~nested.active /\ gesture.phase = "open"
  /\ \E item \in InputTargets, ctrl, shift \in BOOLEAN :
       CallN(drag(Mem, readonly, item, 3, 0, ctrl, shift).m, "drag",
             <<item, 3, 0, ctrl, shift>>, T, session,
             [gesture EXCEPT !.phase = "again"],
             drag(Mem, readonly, item, 3, 0, ctrl, shift).s)
  /\ UNCHANGED nops

\* mousemove with both sessions registered
MoveBoth ==
  /\ session.active /\ nested.active /\ gesture.moves < MaxMoves
  /\ \E q \in {<<9, 3>>, <<13, 10>>} :
       /\ moveExact(moveFrom(moveBegin(Mem, session, T)), q[1], q[2], FALSE, FALSE)
       /\ moveExact(moveFrom(moveBegin(
                      After(move(Mem, session, T, q[1], q[2], FALSE, FALSE).m),
                      nested,
                      move(Mem, session, T, q[1], q[2], FALSE, FALSE).t)),
                    q[1], q[2], FALSE, FALSE)
       /\ MovedBoth(move(Mem, session, T, q[1], q[2], FALSE, FALSE), q)
  /\ UNCHANGED nops

\* mouseup with both sessions registered: both remove their listeners
ReleaseBoth ==
  /\ session.active /\ nested.active
  /\ CallN(Both(end(Mem, session, T, FALSE, FALSE),
                end(After(end(Mem, session, T, FALSE, FALSE)), nested, T,
                    FALSE, FALSE)),
           "end", <<FALSE, FALSE>>, T, Idle, [gesture EXCEPT !.phase = "up"], Idle)
  /\ UNCHANGED nops

\* the escape key with both sessions registered; a handler that raises
\* leaves its listeners registered
CancelBoth ==
  /\ session.active /\ nested.active /\ ~(last.op = "escape" /\ last.err)
  /\ CallN(Both(escape(Mem, session, T),
                escape(After(escape(Mem, session, T)), nested, T)),
           "escape", <<>>, T,
           IF escape(Mem, session, T).err THEN session ELSE Idle,
           [gesture EXCEPT !.phase = "cancelled"],
           IF escape(After(escape(Mem, session, T)), nested, T).err
           THEN nested ELSE Idle)
  /\ UNCHANGED nops

\* the events of a single registered session
Single(A) == ~nested.active /\ A

NextSessions ==
  \/ InputPress \/ PressAgain
  \/ Single(InputMove) \/ Single(Release) \/ Single(Cancel)
  \/ MoveBoth \/ ReleaseBoth \/ CancelBoth

SpecSessions == InitInput /\ [][NextSessions]_vars

\* C3: normalization is idempotent. The segment list a Path is left with
\* after its construction is left unchanged by the construction of a Path
\* over that list.
C3_Idempotent == Len(P) = 2 => SegValues(Mem, 2) = SegValues(Mem, 1)

(***************************************************************************)
(* SpecDirective: the svgSelection directive over an empty Root.  The host *)
(* changes scope.imageSrc (at most MaxLoads images) and edits              *)
(* scope.svgSelection (at most MaxEdits times, at most MaxPaths entries),  *)
(* the browser fires the "load" events, the scope is destroyed.            *)
(***************************************************************************)
MaxLoads == 2
MaxEdits == 1

Urls == {"a", "b"}

SelectionPaths == {DSquare, DFarSquare}

\* the objects the host makes
SelectionObjects == [path : SelectionPaths, selected : {FALSE}]

\* the objects the host adds later, and the paths it assigns in place
NewObjects == [path : {DFarSquare}, selected : {FALSE}]

NewPaths == {DSquare, <<>>}

InitDirective ==
  \E n \in 0..2, bound \in BOOLEAN :
    \E O \in [1..n -> SelectionObjects] :
      /\ bound \/ n = 0
      /\ CreatedHeaps(link("a", O, bound), "link", <<"a">>)
      /\ readonly = FALSE

\* an edit of scope.svgSelection by the host: entry i (0-based) is replaced
\* by a new object, changed in place, removed, or a new object inserted
\* before it
Edits(sc) ==
  {[sc EXCEPT !.O = Append(@, o), !.svgSelection = SetAt(@, i, Len(sc.O) + 1)] :
     o \in NewObjects, i \in 0..(Len(sc.svgSelection) - 1)}
  \cup
  {[sc EXCEPT !.O[sc.svgSelection[i + 1]].path = d] :
     d \in NewPaths, i \in 0..(Len(sc.svgSelection) - 1)}
  \cup
  {[sc EXCEPT !.O[sc.svgSelection[i + 1]].selected = ~@] :
     i \in 0..(Len(sc.svgSelection) - 1)}
  \cup
  {[sc EXCEPT !.svgSelection = SpliceOut(@, i)] :
     i \in 0..(Len(sc.svgSelection) - 1)}
  \cup
  {[sc EXCEPT !.O = Append(@, o), !.svgSelection = InsertAt(@, i, Len(sc.O) + 1)] :
     o \in NewObjects, i \in 0..Len(sc.svgSelection)}

Began == [Mem EXCEPT !.sc.done = FALSE]

\* the host assigns scope.imageSrc; the digest runs loadImage
ImageSrc ==
  /\ scope.root /\ Len(scope.images) < MaxLoads
  /\ \E url \in Urls \ {scope.imageSrc} :
       Call(digest(loadImage([Began EXCEPT !.sc.imageSrc = url], url)),
            "imageSrc", <<url>>)
  /\ UNCHANGED nops

\* the browser fires the "load" event of an image, once; the image may have
\* been loaded by the time its src is cleared
ImageLoad ==
  /\ \E k \in 1..Len(scope.images) :
       /\ ~scope.images[k].fired
       /\ Call(digest(load(Began, k)), "load", <<k>>)
  /\ UNCHANGED nops

\* the host edits scope.svgSelection; the digest runs updateRoot
SvgSelection ==
  /\ scope.root /\ scope.bound /\ nops < MaxEdits
  /\ \E sc \in Edits(scope) :
       /\ Len(sc.svgSelection) <= MaxPaths
       /\ Call(digest([Began EXCEPT !.sc = [sc EXCEPT !.done = FALSE]]),
               "svgSelection", <<sc.svgSelection>>)
  /\ nops' = nops + 1

\* the scope is destroyed
Destroy ==
  /\ scope.root
  /\ Call(destroy(Began), "$destroy", <<>>)
  /\ UNCHANGED nops

NextDirective == ImageSrc \/ ImageLoad \/ SvgSelection \/ Destroy

SpecDirective == InitDirective /\ [][NextDirective]_vars

(***************************************************************************)
(* Properties.                                                             *)
(***************************************************************************)
Range(seq) == {seq[i] : i \in 1..Len(seq)}

NoDuplicates(seq) == \A i, j \in 1..Len(seq) : seq[i] = seq[j] => i = j

Registered == Range(paths)

\* C1: linkage invariant. For every Path in root.paths every edge's start and
\* end are vertices of the same path, every vertex of the path has exactly one
\* outgoing edge (which starts at it) and exactly one incoming edge (which ends
\* at it), both edges of the path, and incoming = outgoing only for a
\* single-edge self-loop.
Linked(p) ==
  LET vs == Range(P[p].vertices)
      es == Range(P[p].edges)
  IN /\ NoDuplicates(P[p].vertices) /\ NoDuplicates(P[p].edges)
     /\ \A e \in es :
          /\ E[e].path = p
          /\ E[e].start \in vs /\ V[E[e].start].outgoing = e
          /\ E[e].end \in vs /\ V[E[e].end].incoming = e
     /\ \A v \in vs :
          /\ V[v].path = p
          /\ V[v].outgoing \in es /\ E[V[v].outgoing].start = v
          /\ V[v].incoming \in es /\ E[V[v].incoming].end = v
          /\ (V[v].incoming = V[v].outgoing =>
                E[V[v].outgoing].start = v /\ E[V[v].outgoing].end = v)

C1_Linkage == \A p \in Registered : Linked(p)

\* a path transformed through a snapshot of it that was taken before one of
\* its vertices was deleted
C1_Witness ==
  /\ last.op = "transform" /\ ~last.err
  /\ paths = <<1>>
  /\ T[1].form = "path"
  /\ Len(T[1].vertices) > Len(P[1].vertices)
  /\ Len(P[1].vertices) > 0

\* C2: cardinality invariant. The subpaths of a path are the runs of its
\* segment list that start at a moveto; a subpath is closed when its run has a
\* closepath. A closed subpath has as many vertices as edges, an open one has
\* one vertex more, and every vertex of the path is on one of its subpaths.
SubpathStarts(p) ==
  {i \in 1..Len(P[p].segs) : S[P[p].segs[i]].t = "M"}

SubpathRun(p, i) ==
  {j \in i..Len(P[p].segs) :
     \A k \in (i + 1)..j : S[P[p].segs[k]].t # "M"}

SubpathEdges(p, i) ==
  {e \in Range(P[p].edges) :
     \E j \in SubpathRun(p, i) : P[p].segs[j] = E[e].segment}

SubpathVertices(p, i) ==
  ({E[e].start : e \in SubpathEdges(p, i)} \cup
   {E[e].end : e \in SubpathEdges(p, i)}) \ {NULL}

SubpathClosed(p, i) ==
  \E j \in SubpathRun(p, i) : S[P[p].segs[j]].t = "z"

Cardinal(p) ==
  /\ \A i \in SubpathStarts(p) :
       SubpathEdges(p, i) # {} =>
         Cardinality(SubpathVertices(p, i)) =
           Cardinality(SubpathEdges(p, i)) + (IF SubpathClosed(p, i) THEN 0 ELSE 1)
  /\ Range(P[p].vertices) =
       UNION {SubpathVertices(p, i) : i \in SubpathStarts(p)}
  /\ Range(P[p].edges) = UNION {SubpathEdges(p, i) : i \in SubpathStarts(p)}
  /\ NoDuplicates(P[p].vertices) /\ NoDuplicates(P[p].edges)
  /\ \A i, j \in SubpathStarts(p) :
       i # j => SubpathVertices(p, i) \cap SubpathVertices(p, j) = {}

C2_Cardinality == \A p \in Registered : Cardinal(p)

\* a path of two subpaths, one of them with more than one vertex, after a
\* deleteVertex call
C2_Witness ==
  /\ last.op = "deleteVertex" /\ ~last.err
  /\ \E p \in Registered :
       /\ Cardinality(SubpathStarts(p)) = 2
       /\ \E i \in SubpathStarts(p) : Cardinality(SubpathVertices(p, i)) >= 2
       /\ \A i \in SubpathStarts(p) : SubpathEdges(p, i) # {}

\* the step is a call of splitEdge that returned a new vertex
SplitDone == last'.op = "splitEdge" /\ last'.ret # NULL

\* the step is a call of deleteVertex on a vertex that is on a registered path
DeleteDone ==
  /\ last'.op = "deleteVertex"
  /\ V[last'.arg[1]].element
  /\ V[last'.arg[1]].path \in Registered

\* C4: a successful splitEdge adds exactly one vertex and one edge to the
\* path. The original edge keeps its start and now ends at the new vertex; a
\* new edge runs from the new vertex to the original end vertex, whose
\* incoming edge it becomes. The same holds when the edge was a self-loop.
C4_SplitEdge ==
  [][SplitDone =>
       LET e == last'.arg[1]
           p == E[e].path
           n == last'.ret
           ne == V'[n].outgoing
       IN /\ Len(P'[p].vertices) = Len(P[p].vertices) + 1
          /\ Len(P'[p].edges) = Len(P[p].edges) + 1
          /\ n \notin DOMAIN V /\ n \in Range(P'[p].vertices)
          /\ ne \notin DOMAIN E /\ ne \in Range(P'[p].edges)
          /\ Range(P'[p].vertices) = Range(P[p].vertices) \cup {n}
          /\ Range(P'[p].edges) = Range(P[p].edges) \cup {ne}
          /\ E'[e].start = E[e].start /\ E'[e].end = n
          /\ V'[n].incoming = e
          /\ E'[ne].start = n /\ E'[ne].end = E[e].end
          /\ V'[E[e].end].incoming = ne
          /\ V'[E[e].start].outgoing = e
          /\ V'[n].x = last'.arg[2] /\ V'[n].y = last'.arg[3]
          /\ ~last'.err]_vars

\* a self-loop edge has just been split into a two-edge loop
C4_Witness ==
  /\ last.op = "splitEdge" /\ last.ret # NULL
  /\ E[last.arg[1]].end = last.ret
  /\ E[V[last.ret].outgoing].end = E[last.arg[1]].start

SplitCurve == SplitDone /\ E[last'.arg[1]].to.t \in {"C", "A"}

MovedTo(seg, x, y) == [seg EXCEPT !.x = x, !.y = y]

\* C5: splitEdge on a curve edge (cubic or arc) leaves the curve kind and its
\* control data on the leading edge, the original edge, whose endpoint becomes
\* the split point; the new trailing edge is a straight line from the split
\* point to the original far endpoint. Both the path segment list and the
\* edges' own segments show it.
C5_SplitCurve ==
  [][SplitCurve =>
       LET e == last'.arg[1]
           x == last'.arg[2]
           y == last'.arg[3]
           ne == V'[last'.ret].outgoing
           far == S[E[e].segment]
       IN /\ E'[e].segment = E[e].segment
          /\ S'[E[e].segment] = MovedTo(S[E[e].segment], x, y)
          /\ E'[e].to = MovedTo(E[e].to, x, y)
          /\ E'[e].to.t = E[e].to.t
          /\ S'[E'[ne].segment] = createSVGPathSegLinetoAbs(far.x, far.y)
          /\ E'[ne].to = createSVGPathSegLinetoAbs(far.x, far.y)
          /\ E'[ne].x0 = x /\ E'[ne].y0 = y]_vars

\* a cubic edge and an arc edge, each split at a point off its ends
C5_Witness ==
  /\ last.op = "splitEdge" /\ last.ret # NULL
  /\ E[last.arg[1]].to.t \in {"C", "A"}
  /\ E[V[last.ret].outgoing].to.t = "L"
  /\ E[last.arg[1]].to.x = 6

\* C5 as the specification words it: the curve data moves to the new trailing
\* edge and the leading edge becomes a straight line to the split point.
C5_Original ==
  [][SplitCurve =>
       LET e == last'.arg[1]
           x == last'.arg[2]
           y == last'.arg[3]
           ne == V'[last'.ret].outgoing
       IN /\ S'[E'[ne].segment] = S[E[e].segment]
          /\ E'[ne].to = E[e].to
          /\ S'[E'[e].segment] = createSVGPathSegLinetoAbs(x, y)
          /\ E'[e].to = createSVGPathSegLinetoAbs(x, y)]_vars

\* the step deletes a vertex whose incoming and outgoing edges differ
DeleteMerge == DeleteDone /\ V[last'.arg[1]].incoming # V[last'.arg[1]].outgoing

Released(item) == ~item.element /\ item.segment = NULL

\* what deleteVertex leaves of the deleted vertex v, its outgoing edge and the
\* merged incoming edge; inherits says what the merged edge takes from the
\* outgoing one: its whole segment, or its endpoint only.
DeleteMerges(whole) ==
  LET v == last'.arg[1]
      p == V[v].path
      in == V[v].incoming
      out == V[v].outgoing
      next == E[out].end
      far == S[E[out].segment]
  IN /\ ~last'.err
     /\ Released(V'[v]) /\ V'[v].incoming = NULL /\ V'[v].outgoing = NULL
     /\ Released(E'[out]) /\ E'[out].start = NULL /\ E'[out].end = NULL
     /\ v \notin Range(P'[p].vertices) /\ out \notin Range(P'[p].edges)
     /\ E[out].segment \notin Range(P'[p].segs)
     /\ IF E'[in].element
        THEN /\ Len(P'[p].vertices) = Len(P[p].vertices) - 1
             /\ Len(P'[p].edges) = Len(P[p].edges) - 1
             /\ E'[in].start = E[in].start /\ E'[in].end = next
             /\ V'[next].incoming = in
             /\ E'[in].segment = E[in].segment
             /\ IF whole
                THEN /\ S'[E[in].segment] = far
                     /\ E'[in].to = E[out].to
                ELSE /\ S'[E[in].segment] = MovedTo(S[E[in].segment], far.x, far.y)
                     /\ E'[in].to = MovedTo(E[in].to, far.x, far.y)
        ELSE \* the merged edge was a self-loop of no length
             /\ V[next].outgoing = in
             /\ Released(E'[in]) /\ Released(V'[next])
             /\ Len(P'[p].vertices) = Len(P[p].vertices) - 2
             /\ Len(P'[p].edges) = Len(P[p].edges) - 2

\* C6: deleteVertex on a vertex with distinct incoming and outgoing edges
\* removes the vertex and its outgoing edge, releases both, ends the incoming
\* edge at the outgoing edge's end vertex and makes it that vertex's incoming
\* edge. The merged edge takes the outgoing edge's far endpoint only and
\* keeps its own kind and curve parameters. Vertex and edge counts drop by one
\* each, unless the merged edge is a self-loop of no length, which is removed
\* with its vertex as well.
C6_DeleteMerge == [][DeleteMerge => DeleteMerges(FALSE)]_vars

\* a vertex between a cubic edge and a line has been deleted and the merged
\* edge survives as a cubic
C6_Witness ==
  /\ last.op = "deleteVertex" /\ ~last.err
  /\ ~V[last.arg[1]].element
  /\ \E p \in Registered : \E e \in Range(P[p].edges) :
       /\ E[e].to.t = "C" /\ S[E[e].segment].t = "C"
       /\ Len(P[p].edges) = 1
       /\ last.ev = <<[action |-> "transform", path |-> p]>>

\* C6 as the specification words it: the merged incoming edge inherits the
\* outgoing edge's far endpoint and the outgoing edge's curve parameters.
C6_Original == [][DeleteMerge => DeleteMerges(TRUE)]_vars

\* the step deletes the only vertex of a self-loop
DeleteLoop ==
  /\ DeleteDone
  /\ V[last'.arg[1]].incoming = V[last'.arg[1]].outgoing
  /\ V[last'.arg[1]].outgoing # NULL

Without(seq, x) == SelectSeq(seq, LAMBDA y : y # x)

\* C7: deleteVertex on the vertex of a single-edge self-loop removes that
\* vertex, its edge and the three segments of its subpath (moveto, edge,
\* closepath) and nothing else of the path. The Path is removed from the root,
\* with a Remove notification, exactly when no vertex remains; otherwise it
\* stays and a Transform notification is sent.
C7_DeleteLoop ==
  [][DeleteLoop =>
       LET v == last'.arg[1]
           p == V[v].path
           e == V[v].outgoing
           i == CHOOSE k \in 1..Len(P[p].segs) : P[p].segs[k] = E[e].segment
       IN /\ ~last'.err
          /\ Released(V'[v]) /\ Released(E'[e])
          /\ P[p].segs[i - 1] = V[v].segment /\ S[V[v].segment].t = "M"
          /\ S[P[p].segs[i + 1]].t = "z"
          /\ P'[p].segs =
               SubSeq(P[p].segs, 1, i - 2) \o SubSeq(P[p].segs, i + 2, Len(P[p].segs))
          /\ S' = S
          /\ \A u \in DOMAIN V : u # v => V'[u] = V[u]
          /\ \A f \in DOMAIN E : f # e => E'[f] = E[f]
          /\ IF Len(P[p].vertices) = 1
             THEN /\ paths' = Without(paths, p)
                  /\ ~P'[p].element
                  /\ last'.ev = <<[action |-> "remove", path |-> p]>>
             ELSE /\ paths' = paths
                  /\ P'[p].element
                  /\ P'[p].vertices = Without(P[p].vertices, v)
                  /\ P'[p].edges = Without(P[p].edges, e)
                  /\ last'.ev = <<[action |-> "transform", path |-> p]>>]_vars

\* a Path that is one closed subpath of exactly two vertices and two edges
TwoLoop(p) ==
  /\ p \in Registered
  /\ Len(P[p].vertices) = 2 /\ Len(P[p].edges) = 2
  /\ Cardinality(SubpathStarts(p)) = 1
  /\ \A i \in SubpathStarts(p) : SubpathClosed(p, i)

DeleteOfTwo == DeleteDone /\ TwoLoop(V[last'.arg[1]].path)

\* the edge has no length once its end is moved onto its start (x, y): it is
\* a line or an arc, or a cubic with both control points on that point
Collapses(seg, x, y) ==
  \/ seg.t \in {"L", "A"}
  \/ seg.t = "C" /\ seg.x1 = x /\ seg.y1 = y /\ seg.x2 = x /\ seg.y2 = y

\* C8: deleteVertex on a vertex of a two-vertex closed loop removes the Path
\* entirely, with a Remove notification, exactly when the deleted vertex's
\* incoming edge has no length once it ends on the other vertex (a line, an
\* arc, or a cubic whose control points are on the other vertex). Otherwise
\* the Path stays registered with the other vertex and the incoming edge as a
\* self-loop, and a Transform notification is sent.
C8_DeleteOfTwo ==
  [][DeleteOfTwo =>
       LET v == last'.arg[1]
           p == V[v].path
           in == V[v].incoming
           other == E[in].start
       IN /\ ~last'.err
          /\ IF Collapses(E[in].to, V[other].x, V[other].y)
             THEN /\ paths' = Without(paths, p)
                  /\ ~P'[p].element
                  /\ P'[p].vertices = <<>> /\ P'[p].edges = <<>>
                  /\ last'.ev = <<[action |-> "remove", path |-> p]>>
             ELSE /\ paths' = paths
                  /\ P'[p].vertices = <<other>> /\ P'[p].edges = <<in>>
                  /\ E'[in].start = other /\ E'[in].end = other
                  /\ last'.ev = <<[action |-> "transform", path |-> p]>>]_vars

\* a two-vertex loop whose deleted vertex had a cubic incoming edge with its
\* control points on the other vertex: the Path is gone
C8_Witness ==
  /\ last.op = "deleteVertex" /\ ~last.err
  /\ paths = <<>> /\ Len(V) = 2 /\ Len(E) = 2
  /\ last.ev = <<[action |-> "remove", path |-> 1]>>
  /\ \E e \in DOMAIN E : E[e].to.t = "C" /\ E[e].to.x1 = 0 /\ V[last.arg[1]].x = 3

\* C8 as the specification words it: whatever the edge kinds, deleteVertex on
\* either vertex of a two-vertex closed loop removes the Path entirely.
C8_Original ==
  [][DeleteOfTwo =>
       /\ ~last'.err
       /\ V[last'.arg[1]].path \notin Range(paths')
       /\ ~P'[V[last'.arg[1]].path].element]_vars

\* the rectangle of createRectPath(0, 0, 10, 10), never split, whose vertices
\* have been passed to deleteVertex in turn so far
RectInTurn ==
  /\ Len(V) = 4 /\ Len(E) = 4
  /\ V[1].x = 0 /\ V[1].y = 0 /\ V[2].x = 10 /\ V[2].y = 0
  /\ V[3].x = 10 /\ V[3].y = 10 /\ V[4].x = 0 /\ V[4].y = 10
  /\ called = 1..Cardinality(called)

\* C9: createRectPath(0, 0, 10, 10) followed by deleteVertex on each of the
\* four vertices in turn: every call completes without error and the Path
\* leaves the root on the deletion of the last vertex, not before.
C9_RectInTurn ==
  [][(/\ RectInTurn
      /\ last'.op = "deleteVertex"
      /\ last'.arg[1] = Cardinality(called) + 1)
       => /\ ~last'.err
          /\ (paths' = <<>>) <=> (last'.arg[1] = 4)]_vars

\* C10: Root.insert(options, index) puts the new Path at the clamped index
\* (negative to 0, above the length to the length, omitted to the end) and the
\* paths that were at or after that index move up by one.
C10_InsertAt ==
  [][(last'.op = "insert" /\ last'.ret # NULL)
       => paths' = SpliceIn(paths, insertIndex(paths, last'.arg[3]), last'.ret)]_vars

\* an index of root.paths that holds a path
InRange(index) == index >= 0 /\ index < Len(paths)

\* C11: Root.get and Root.remove with an index outside [0, length-1] find
\* nothing and raise no error: get returns no Path; remove leaves root.paths
\* and every object unchanged and emits no notification.  Root.remove with an
\* index in range takes exactly that Path out of root.paths and emits exactly
\* one Remove notification carrying it.
C11_OutOfRange ==
  [][/\ last'.op = "get" =>
          /\ ~last'.err /\ last'.ev = <<>>
          /\ UNCHANGED <<paths, P, V, E, S>>
          /\ last'.ret = IF InRange(last'.arg[1])
                         THEN paths[last'.arg[1] + 1] ELSE NULL
     /\ last'.op = "remove" =>
          /\ ~last'.err
          /\ IF InRange(last'.arg[1])
             THEN /\ paths' = SpliceOut(paths, last'.arg[1])
                  /\ last'.ev = << [action |-> "remove",
                                    path |-> paths[last'.arg[1] + 1]] >>
                  /\ \A p \in Range(paths') : P'[p] = P[p]
             ELSE /\ UNCHANGED <<paths, P, V, E, S>>
                  /\ last'.ev = <<>>]_vars

\* Root.remove(1) found nothing in a root of one path
C11_Witness ==
  /\ last.op = "remove" /\ last.arg[1] = 1 /\ Len(paths) = 1
  /\ last.ev = <<>> /\ ~last.err
\* the number of vertices the Path constructor makes of the descriptor d
NormVertices(d) == Len(Path(Mem, d).P[Len(P) + 1].vertices)

\* C12: Root.insert of a descriptor whose normalization yields no vertex, or at
\* most one vertex with a traced length that is not zero, creates nothing: it
\* returns no Path, root.paths is unchanged and no notification is emitted.
C12_Rejected ==
  [][(/\ last'.op = "insert"
      /\ \/ NormVertices(last'.arg[1]) = 0
         \/ /\ NormVertices(last'.arg[1]) <= 1
            /\ getTotalLength(Path(Mem, last'.arg[1]), Len(P) + 1) # "zero")
       => /\ last'.ret = NULL
          /\ paths' = paths
          /\ last'.ev = <<>>]_vars
\* C13: deleteVertex on a vertex that an earlier operation released is a
\* no-op: it raises no error, changes no vertex, edge, segment list or
\* root.paths, and emits no notification.
C13_StaleDelete ==
  [][(last'.op = "deleteVertex" /\ ~V[last'.arg[1]].element)
       => /\ ~last'.err
          /\ UNCHANGED <<paths, P, V, E, S>>
          /\ last'.ev = <<>>]_vars
\* C14: splitEdge on an edge that an earlier deleteVertex released fails as a
\* no-op: it completes, returns no vertex, leaves the vertices, the edges,
\* the segment lists and every coordinate unchanged and emits no notification.
C14_StaleSplit ==
  [][(last'.op = "splitEdge" /\ ~E[last'.arg[1]].element /\ called # {})
       => /\ ~last'.err
          /\ last'.ret = NULL
          /\ UNCHANGED <<paths, P, V, E, S>>
          /\ last'.ev = <<>>]_vars

\* the same for a released edge whose Path is still in the root
C14_StaleSplitLive ==
  [][(/\ last'.op = "splitEdge" /\ ~E[last'.arg[1]].element /\ called # {}
      /\ P[E[last'.arg[1]].path].element)
       => /\ ~last'.err
          /\ last'.ret = NULL
          /\ UNCHANGED <<paths, P, V, E, S>>
          /\ last'.ev = <<>>]_vars
\* the end point and the control points of a segment
SegCoords(seg) == <<seg.x, seg.y, seg.x1, seg.y1, seg.x2, seg.y2>>

\* every vertex position, edge start, edge segment and path segment of heaps
Coords(v, e, s) ==
  [V |-> [i \in DOMAIN v |-> <<v[i].x, v[i].y>>],
   E |-> [i \in DOMAIN e |-> <<e[i].x0, e[i].y0>> \o SegCoords(e[i].to)],
   S |-> [i \in DOMAIN s |-> SegCoords(s[i])]]

\* the coordinates a single-vertex snapshot entry is about: the vertex, the
\* start and first control point of its outgoing edge, the end and second
\* control point of its incoming edge
VertexCoords(v, e, s, item) ==
  << v[item.vertex].x, v[item.vertex].y,
     e[item.outgoing].x0, e[item.outgoing].y0,
     e[item.outgoing].to.x1, e[item.outgoing].to.y1,
     s[e[item.outgoing].segment].x1, s[e[item.outgoing].segment].y1,
     e[item.incoming].to.x, e[item.incoming].to.y,
     e[item.incoming].to.x2, e[item.incoming].to.y2,
     s[e[item.incoming].segment].x, s[e[item.incoming].segment].y,
     s[e[item.incoming].segment].x2, s[e[item.incoming].segment].y2 >>

\* the coordinates in the scope of Transform t are what they were when t was
\* constructed
AsTaken(t) ==
  IF T[t].form = "path"
  THEN Coords(V, E, S) = Coords(taken[t].V, taken[t].E, taken[t].S)
  ELSE \A i \in DOMAIN T[t].vertex :
         VertexCoords(V, E, S, T[t].vertex[i]) =
           VertexCoords(taken[t].V, taken[t].E, taken[t].S, T[t].vertex[i])

IdentityOptions == {NoOptions, Options(NaN, NaN, 0, 0, 1, 0, 1)}

\* C15: transform with identity options (none at all, or no offset, scale 1
\* and no rotation), on a whole-path, single-vertex or single-edge snapshot
\* and after any transform calls, completes and leaves every vertex position,
\* edge end point and control point in the snapshot's scope equal to its
\* value when the snapshot was taken.
C15_Identity ==
  (last.op = "transform" /\ last.arg[2] \in IdentityOptions)
    => (~last.err /\ AsTaken(last.arg[1]))
\* the paths, vertices, edges and segments a call leaves
Heaps(m) == <<m.paths, m.P, m.V, m.E, m.S>>

\* what transform(o) on Transform t gives when it is the first call after the
\* construction of t
Alone(t, o) ==
  transform([Mem EXCEPT !.V = taken[t].V, !.E = taken[t].E, !.S = taken[t].S],
            T[t], o)

\* C16: transforms are computed from the snapshot, not from the output of the
\* previous call: after any calls on a snapshot, transform(o) leaves the
\* coordinates in the snapshot's scope as transform(o) alone leaves them.
C16_Baseline ==
  last.op = "transform" =>
    LET t == last.arg[1]
        alone == Alone(t, last.arg[2])
    IN IF T[t].form = "path"
       THEN <<V, E, S>> = <<alone.V, alone.E, alone.S>>
       ELSE \A i \in DOMAIN T[t].vertex :
              VertexCoords(V, E, S, T[t].vertex[i]) =
                VertexCoords(alone.V, alone.E, alone.S, T[t].vertex[i])

\* a second transform call on the only snapshot, a whole-path one, has moved
\* the path by (3, 6)
C16_Witness ==
  /\ nops = 3 /\ Len(T) = 1 /\ T[1].form = "path" /\ T[1].centred
  /\ last.op = "transform" /\ last.arg[2] = Options(NaN, NaN, 3, 6, NaN, NaN, NaN)
  /\ \A v \in DOMAIN V : V[v].x = taken[1].V[v].x + 3 /\ V[v].y = taken[1].V[v].y + 6
\* the vertices a single-vertex or single-edge snapshot targets
Targets(t) == {T[t].vertex[i].vertex : i \in DOMAIN T[t].vertex}

\* C17: transform on a single-vertex snapshot with offset (dx, dy) puts each
\* targeted vertex at its snapshot position plus (dx, dy); on an incident
\* cubic edge the control point next to the vertex (the first of the outgoing
\* edge, the second of the incoming edge) is put at its own snapshot value plus
\* (dx, dy), and the control point at the far end is left as it was.
C17_VertexOffset ==
  [][(last'.op = "transform" /\ T[last'.arg[1]].form = "vertex") =>
       LET t == last'.arg[1]
           dx == OrZero(last'.arg[2].dx)
           dy == OrZero(last'.arg[2].dy)
           was == taken[t]
       IN \A i \in DOMAIN T[t].vertex :
            LET v == T[t].vertex[i].vertex
                out == T[t].vertex[i].outgoing
                in == T[t].vertex[i].incoming
            IN /\ V'[v].x = was.V[v].x + dx /\ V'[v].y = was.V[v].y + dy
               /\ E'[out].to.t = "C" =>
                    /\ E'[out].to.x1 = was.E[out].to.x1 + dx
                    /\ E'[out].to.y1 = was.E[out].to.y1 + dy
                    /\ E[out].end \notin Targets(t) =>
                         /\ E'[out].to.x2 = E[out].to.x2
                         /\ E'[out].to.y2 = E[out].to.y2
               /\ E'[in].to.t = "C" =>
                    /\ E'[in].to.x2 = was.E[in].to.x2 + dx
                    /\ E'[in].to.y2 = was.E[in].to.y2 + dy
                    /\ E[in].start \notin Targets(t) =>
                         /\ E'[in].to.x1 = E[in].to.x1
                         /\ E'[in].to.y1 = E[in].to.y1]_vars
\* the options o reduced to their offset
OffsetOnly(o) == Options(NaN, NaN, o.dx, o.dy, NaN, NaN, NaN)

\* C18: transform on a single-vertex snapshot ignores the scale, rotation and
\* centre options (it gives what the offset alone gives), and every vertex
\* that is not targeted and every edge with no targeted end keeps all its
\* coordinates.
C18_VertexFrame ==
  [][(last'.op = "transform" /\ T[last'.arg[1]].form = "vertex") =>
       /\ <<paths', P', V', E', S'>> =
            Heaps(transform(Mem, T[last'.arg[1]], OffsetOnly(last'.arg[2])))
       /\ \A v \in DOMAIN V \ Targets(last'.arg[1]) :
            /\ V'[v] = V[v]
            /\ V[v].segment # NULL => S'[V[v].segment] = S[V[v].segment]
       /\ \A e \in DOMAIN E :
            (E[e].start \notin Targets(last'.arg[1]) /\
             E[e].end \notin Targets(last'.arg[1]))
              => (E'[e] = E[e] /\ S'[E[e].segment] = S[E[e].segment])]_vars

\* transform with a shift by (3, 0), a scale of 2 and a quarter turn about
\* (0, 0) has moved the vertex of a single-vertex snapshot by (3, 0), in a path
\* that has an edge with no targeted end
C18_Witness ==
  /\ last.op = "transform" /\ ~last.err
  /\ last.arg[2] = Options(0, 0, 3, NaN, 2, 1, 0)
  /\ T[last.arg[1]].form = "vertex" /\ Len(T[last.arg[1]].vertex) = 1
  /\ LET v == T[last.arg[1]].vertex[1].vertex
     IN /\ V[v].x = taken[last.arg[1]].V[v].x + 3
        /\ V[v].y = taken[last.arg[1]].V[v].y
        /\ \E e \in DOMAIN E : E[e].start # v /\ E[e].end # v
\* the bounding box the path of Transform t had when t was constructed
TakenBox(t) ==
  ListBBox([i \in DOMAIN P[T[t].path].segs |-> taken[t].S[P[T[t].path].segs[i]]])

\* centre + L * (p - centre) + offset for the options o of a transform call on
\* Transform t, with L = [[cos*s, -sin*s], [sin*sy, cos*sy]]; a coordinate
\* that is NaN in the snapshot has the image NaN
Affine(t, o, p) ==
  LET cx == IF o.cx = NaN THEN TakenBox(t).x + TakenBox(t).width \div 2 ELSE o.cx
      cy == IF o.cy = NaN THEN TakenBox(t).y + TakenBox(t).height \div 2 ELSE o.cy
      dx == IF o.dx = NaN THEN 0 ELSE o.dx
      dy == IF o.dy = NaN THEN 0 ELSE o.dy
      s == IF o.s = NaN THEN 1 ELSE o.s
      sy == IF o.sy = NaN THEN s ELSE o.sy
      sin == IF o.sin = NaN \/ o.cos = NaN THEN 0 ELSE o.sin
      cos == IF o.sin = NaN \/ o.cos = NaN THEN 1 ELSE o.cos
  IN << Add(Add(cx, Sub(Mul(cos * s, Sub(p[1], cx)), Mul(sin * s, Sub(p[2], cy)))), dx),
        Add(Add(cy, Add(Mul(sin * sy, Sub(p[1], cx)), Mul(cos * sy, Sub(p[2], cy)))), dy) >>

\* the segment now is the image of the segment was: its end point and, for a
\* cubic curve, its control points
AffineSeg(t, o, now, was) ==
  /\ now.t # "z" => <<now.x, now.y>> = Affine(t, o, <<was.x, was.y>>)
  /\ now.t = "C" => /\ <<now.x1, now.y1>> = Affine(t, o, <<was.x1, was.y1>>)
                    /\ <<now.x2, now.y2>> = Affine(t, o, <<was.x2, was.y2>>)

PureOffset(o) == o = Options(NaN, NaN, o.dx, o.dy, NaN, NaN, NaN)
PureScale(o) == o = Options(NaN, NaN, NaN, NaN, o.s, NaN, NaN) /\ o.s # NaN

\* C19: transform on a whole-path snapshot maps every anchor point and every
\* cubic control point p of the snapshot to centre + L * (p - centre) + offset,
\* the centre defaulting to the centre of the snapshot's bounding box and sy to
\* s; a pure offset translates the bounding box keeping its size, and a pure
\* scale k about the default centre multiplies its width and height by k.
C19_Affine ==
  (last.op = "transform" /\ T[last.arg[1]].form = "path") =>
    LET t == last.arg[1]
        o == last.arg[2]
        was == taken[t]
        box == getBBox(Mem, T[t].path)
    IN /\ ~last.err
       /\ \A v \in DOMAIN V :
            <<V[v].x, V[v].y>> = Affine(t, o, <<was.V[v].x, was.V[v].y>>)
       /\ \A e \in DOMAIN E :
            /\ <<E[e].x0, E[e].y0>> = Affine(t, o, <<was.E[e].x0, was.E[e].y0>>)
            /\ AffineSeg(t, o, E[e].to, was.E[e].to)
       /\ \A i \in DOMAIN P[T[t].path].segs :
            AffineSeg(t, o, S[P[T[t].path].segs[i]], was.S[P[T[t].path].segs[i]])
       /\ (PureOffset(o) /\ TakenBox(t).known) =>
            box = [TakenBox(t) EXCEPT !.x = @ + OrZero(o.dx), !.y = @ + OrZero(o.dy)]
       /\ (PureScale(o) /\ TakenBox(t).known) =>
            /\ box.known
            /\ box.width = o.s * TakenBox(t).width
            /\ box.height = o.s * TakenBox(t).height

\* the rectangle "M 0 0 L 10 0 L 10 10 L 0 10 Z" scaled by 2 about the centre
\* of its bounding box
C19_Witness ==
  /\ last.op = "transform" /\ T[last.arg[1]].form = "path"
  /\ last.arg[2] = Options(NaN, NaN, NaN, NaN, 2, NaN, NaN)
  /\ TakenBox(last.arg[1]) = [known |-> TRUE, x |-> 0, y |-> 0, width |-> 10, height |-> 10]
  /\ getBBox(Mem, T[last.arg[1]].path) =
       [known |-> TRUE, x |-> -5, y |-> -5, width |-> 20, height |-> 20]
\* the descriptor d is one subpath drawn with absolute commands through the
\* distinct anchor points d[1], ..., d[Len(d) - 1] and then closed
ClosedLoop(d) ==
  /\ Len(d) >= 3
  /\ d[1].t = "M" /\ d[Len(d)].t = "z"
  /\ \A i \in 2..(Len(d) - 1) : d[i].t \in {"L", "C", "Q"}
  /\ \A i, j \in 1..(Len(d) - 1) : (d[i].x = d[j].x /\ d[i].y = d[j].y) => i = j

\* the list has a closepath that directly follows a closepath or a moveto
HasDuplicate(list) ==
  \E i \in 2..Len(list) :
    list[i].t = "z" /\ list[i - 1].t \in {"z", "M", "m"}

\* no moveto of the list is the last command or directly followed by a moveto
NoEmptyMoveto(list) ==
  \A i \in DOMAIN list :
    list[i].t \in {"M", "m"} =>
      (i < Len(list) /\ list[i + 1].t \notin {"M", "m"})

\* C20: closepath in the normalizer.  A subpath drawn through n distinct anchor
\* points and closed gets a lineto back to its initial point before the
\* closepath, and the closepath links the last edge to the initial vertex
\* without a new vertex: n vertices, n edges, closed.  A closepath that
\* directly follows a closepath or a moveto is dropped: the normalized list
\* of a descriptor in which every moveto is followed by a drawing command or
\* a closepath has no closepath right after a closepath or a moveto.
C20_Closepath ==
  (Len(P) = 1 /\ last.op = "Path") =>
    LET d == last.arg[1]
        out == SegValues(Mem, 1)
        n == Len(d) - 1
    IN /\ ClosedLoop(d) =>
            /\ Len(out) = Len(d) + 1
            /\ out[Len(out)].t = "z"
            /\ out[Len(out) - 1] = createSVGPathSegLinetoAbs(d[1].x, d[1].y)
            /\ Len(P[1].vertices) = n /\ Len(P[1].edges) = n
            /\ \A i \in 1..n :
                 /\ V[P[1].vertices[i]].x = d[i].x /\ V[P[1].vertices[i]].y = d[i].y
                 /\ E[P[1].edges[i]].start = P[1].vertices[i]
                 /\ E[P[1].edges[i]].end = P[1].vertices[(i % n) + 1]
                 /\ V[P[1].vertices[(i % n) + 1]].incoming = P[1].edges[i]
       /\ NoEmptyMoveto(d) => ~HasDuplicate(out)
\* the segment kinds that draw: each makes an edge
Drawing == {"L", "C", "A"}

\* the index of the moveto that starts the subpath of list[i]
StartOf(list, i) ==
  CHOOSE j \in 1..i : list[j].t = "M" /\ \A k \in (j + 1)..i : list[k].t # "M"

\* every subpath of the list that draws ends, before the next moveto or the
\* end of the list, with a closepath that follows a segment back at the
\* subpath's moveto
AllClosed(list) ==
  \A i \in DOMAIN list :
    (i = Len(list) \/ list[i + 1].t = "M") =>
      /\ list[i].t \notin Drawing
      /\ (list[i].t = "z" /\ i > 1 /\ list[i - 1].t \in Drawing) =>
           /\ list[i - 1].x = list[StartOf(list, i)].x
           /\ list[i - 1].y = list[StartOf(list, i)].y

\* C21: the normalizer closes a subpath that draws and is still open at the
\* next moveto or at the end of the descriptor, with a closepath and, if
\* needed, a closing lineto before it: after construction every subpath that
\* draws ends with a closepath at its initial point, every edge has its start
\* and its end, and every vertex is on a closed chain.
C21_ImplicitClose ==
  (Len(P) = 1 /\ last.op = "Path") =>
    /\ AllClosed(SegValues(Mem, 1))
    /\ \A e \in Range(P[1].edges) : E[e].start # NULL /\ E[e].end # NULL
    /\ Linked(1)

\* "M 0 0 L 3 0 M 3 3 L 3 0": the first subpath was closed at the second
\* moveto, the second at the end of the descriptor
C21_Witness ==
  /\ Len(P) = 1 /\ last.op = "Path"
  /\ last.arg[1] = << createSVGPathSegMovetoAbs(0, 0), createSVGPathSegLinetoAbs(3, 0),
                      createSVGPathSegMovetoAbs(3, 3), createSVGPathSegLinetoAbs(3, 0) >>
  /\ SegValues(Mem, 1) =
       << createSVGPathSegMovetoAbs(0, 0), createSVGPathSegLinetoAbs(3, 0),
          createSVGPathSegLinetoAbs(0, 0), createSVGPathSegClosePath,
          createSVGPathSegMovetoAbs(3, 3), createSVGPathSegLinetoAbs(3, 0),
          createSVGPathSegLinetoAbs(3, 3), createSVGPathSegClosePath >>
  /\ Len(P[1].edges) = 4 /\ Len(P[1].vertices) = 4
Movetos == {"M", "m"}

\* C22: two consecutive movetos, absolute or relative, collapse to the later
\* one.  For a descriptor that starts with two movetos and a drawing command,
\* the normalized list starts with one moveto at the absolute position of the
\* second, directly followed by the drawing command: no closepath and no
\* vertex is made for the first.
C22_MovetoCollapse ==
  (/\ Len(P) = 1 /\ last.op = "Path"
   /\ Len(last.arg[1]) >= 3
   /\ last.arg[1][1].t \in Movetos /\ last.arg[1][2].t \in Movetos
   /\ last.arg[1][3].t \notin Movetos \cup {"z"})
    => LET d == last.arg[1]
           out == SegValues(Mem, 1)
           x == IF d[2].t = "M" THEN d[2].x ELSE d[1].x + d[2].x
           y == IF d[2].t = "M" THEN d[2].y ELSE d[1].y + d[2].y
       IN /\ Len(out) >= 2
          /\ out[1] = createSVGPathSegMovetoAbs(x, y)
          /\ out[2].t \in Drawing
          /\ V[P[1].vertices[1]].x = x /\ V[P[1].vertices[1]].y = y
Cubics == {"C", "c", "S", "s"}

Quadratics == {"Q", "q", "T", "t"}

\* p + (q - p) * 3 / 2: the quadratic control point behind the cubic control
\* point q = p + (c - p) * 2 / 3
ThreeHalves(q, p) ==
  IF q = NaN \/ p = NaN THEN NaN ELSE p + ((q - p) * 3) \div 2

Reflect(c, p) == Sub(Add(c, c), p)

\* the implicit control point of the shorthand at position i of the
\* attribute d, normalized to out, as the rule of SVG gives it
ImplicitX(d, out, i) ==
  CASE d[i].t \in {"S", "s"} /\ d[i - 1].t \in Cubics ->
         Reflect(out[i - 1].x, out[i - 1].x2)
    [] d[i].t \in {"T", "t"} /\ d[i - 1].t \in Quadratics ->
         Reflect(out[i - 1].x, ThreeHalves(out[i - 1].x2, out[i - 1].x))
    [] OTHER -> out[i - 1].x

ImplicitY(d, out, i) ==
  CASE d[i].t \in {"S", "s"} /\ d[i - 1].t \in Cubics ->
         Reflect(out[i - 1].y, out[i - 1].y2)
    [] d[i].t \in {"T", "t"} /\ d[i - 1].t \in Quadratics ->
         Reflect(out[i - 1].y, ThreeHalves(out[i - 1].y2, out[i - 1].y))
    [] OTHER -> out[i - 1].y

\* C23: a shorthand cubic takes the reflection of the previous cubic's second
\* control point about the current point as its first control point, a
\* shorthand quadratic the reflection of the previous quadratic's control
\* point, and either takes the current point when the previous command is of
\* another kind.
C23_Smooth ==
  (Len(P) = 1 /\ last.op = "Path" /\ last.arg[1] \in ShorthandDescriptors) =>
    LET d == last.arg[1]
        out == SegValues(Mem, 1)
    IN \A i \in 2..Len(d) :
         /\ d[i].t \in {"S", "s"} =>
              /\ out[i].t = "C"
              /\ out[i].x1 = ImplicitX(d, out, i)
              /\ out[i].y1 = ImplicitY(d, out, i)
         /\ d[i].t \in {"T", "t"} =>
              /\ out[i].t = "C"
              /\ out[i].x1 = TwoThirds(ImplicitX(d, out, i), out[i - 1].x)
              /\ out[i].y1 = TwoThirds(ImplicitY(d, out, i), out[i - 1].y)
              /\ out[i].x2 = TwoThirds(ImplicitX(d, out, i), out[i].x)
              /\ out[i].y2 = TwoThirds(ImplicitY(d, out, i), out[i].y)
\* the point a horizontal or vertical line command at position i of the
\* attribute d, normalized to out, leads to
LineX(d, out, i) ==
  CASE d[i].t = "H" -> d[i].x
    [] d[i].t = "h" -> Add(out[i - 1].x, d[i].x)
    [] OTHER -> out[i - 1].x

LineY(d, out, i) ==
  CASE d[i].t = "V" -> d[i].y
    [] d[i].t = "v" -> Add(out[i - 1].y, d[i].y)
    [] OTHER -> out[i - 1].y

\* C24: a horizontal or vertical line command becomes an absolute lineto that
\* keeps the other coordinate of the current point, and makes one edge ending
\* at that point.
C24_HorizontalVertical ==
  (Len(P) = 1 /\ last.op = "Path" /\ last.arg[1] \in ShorthandDescriptors) =>
    LET d == last.arg[1]
        out == SegValues(Mem, 1)
    IN \A i \in 2..Len(d) : d[i].t \in {"H", "h", "V", "v"} =>
         /\ out[i] = createSVGPathSegLinetoAbs(LineX(d, out, i), LineY(d, out, i))
         /\ Cardinality({e \in Range(P[1].edges) : E[e].segment = P[1].segs[i]}) = 1
         /\ \A e \in Range(P[1].edges) : E[e].segment = P[1].segs[i] =>
              /\ E[e].to = out[i]
              /\ V[E[e].end].x = out[i].x
              /\ V[E[e].end].y = out[i].y
AbsoluteTypes == {"M", "L", "C", "A", "z", "Z"}

Recognized(seg) == seg.t # "?"

\* the absolute form of the drawing command seg met at the current point
\* (cx, cy)
Absolute(seg, cx, cy) ==
  CASE seg.t = "l" -> createSVGPathSegLinetoAbs(Add(seg.x, cx), Add(seg.y, cy))
    [] seg.t = "c" ->
         createSVGPathSegCurvetoCubicAbs(Add(seg.x, cx), Add(seg.y, cy),
                                         Add(seg.x1, cx), Add(seg.y1, cy),
                                         Add(seg.x2, cx), Add(seg.y2, cy))
    [] seg.t = "a" ->
         createSVGPathSegArcAbs(Add(seg.x, cx), Add(seg.y, cy), seg.r1, seg.r2,
                                seg.angle, seg.laf, seg.sf)
    [] seg.t = "v" -> createSVGPathSegLinetoAbs(cx, Add(seg.y, cy))
    [] seg.t = "m" -> createSVGPathSegMovetoAbs(Add(seg.x, cx), Add(seg.y, cy))
    [] OTHER -> seg

\* every drawing command of the list is inside a subpath that a moveto starts
StartedByMoveto(list) ==
  \A i \in DOMAIN list : list[i].t \in Drawing =>
    i > 1 /\ list[i - 1].t \in Drawing \cup {"M"}

\* the movetos of the list after the first are at the point the closepath
\* before them returned to
MovetoAtCurrent(list) ==
  \A i \in DOMAIN list : (i > 1 /\ list[i].t = "M") =>
    /\ list[i - 1].t \in {"z", "Z"}
    /\ list[i].x = list[StartOf(list, i - 1)].x
    /\ list[i].y = list[StartOf(list, i - 1)].y

\* C25: the constructor leaves absolute moveto, lineto, cubic, arc and
\* closepath commands only; a relative command is replaced by its absolute
\* form at the current point, an unrecognized one is dropped, and a drawing
\* command with no moveto before it in its subpath gets a moveto to the
\* current point.
C25_AbsoluteOnly ==
  (Len(P) = 1 /\ last.op = "Path" /\ last.arg[1] \in SegmentDescriptors) =>
    LET d == last.arg[1]
        out == SegValues(Mem, 1)
        known == SelectSeq(d, Recognized)
    IN /\ \A i \in DOMAIN out : out[i].t \in AbsoluteTypes
       /\ StartedByMoveto(out)
       /\ (\A i \in 2..Len(d) : d[i].t \notin Movetos) =>
            /\ MovetoAtCurrent(out)
            /\ (out # <<>> /\ d[1].t \notin Movetos) =>
                 out[1] = createSVGPathSegMovetoAbs(0, 0)
       /\ (/\ d[1].t \in Movetos /\ Len(known) > 1
           /\ \A i \in 2..Len(d) : d[i].t \notin Movetos \cup {"z"}) =>
            /\ Len(out) >= Len(known)
            /\ out[1] = Absolute(d[1], 0, 0)
            /\ \A i \in 2..Len(known) :
                 out[i] = Absolute(known[i], out[i - 1].x, out[i - 1].y)
\* C26: createRectPath makes a path of four vertices, top-left, top-right,
\* bottom-right, bottom-left, and four edges in one closed loop, whatever the
\* sides are, selects the path, its vertices and its edges, and puts it at the
\* end of root.paths.
C26_Rect ==
  last.op = "createRectPath" =>
    LET left == last.arg[1]
        top == last.arg[2]
        right == last.arg[3]
        bottom == last.arg[4]
        path == last.ret
        corners == <<<<left, top>>, <<right, top>>, <<right, bottom>>, <<left, bottom>>>>
    IN /\ ~last.err
       /\ path = Len(P)
       /\ paths # <<>> /\ paths[Len(paths)] = path
       /\ Cardinality({i \in DOMAIN paths : paths[i] = path}) = 1
       /\ P[path].element /\ P[path].selected
       /\ Len(P[path].vertices) = 4 /\ Len(P[path].edges) = 4
       /\ \A i \in 1..4 :
            LET v == P[path].vertices[i]
                e == P[path].edges[i]
                next == P[path].vertices[(i % 4) + 1]
            IN /\ V[v].x = corners[i][1] /\ V[v].y = corners[i][2]
               /\ V[v].selected /\ E[e].selected
               /\ V[v].outgoing = e /\ E[e].start = v
               /\ E[e].end = next /\ V[next].incoming = e
               /\ E[e].x0 = V[v].x /\ E[e].y0 = V[v].y
               /\ E[e].to.x = V[next].x /\ E[e].to.y = V[next].y

\* a rectangle of no width made after a square
C26_Witness ==
  /\ last.op = "createRectPath" /\ last.arg = <<10, 0, 10, 10>>
  /\ Len(paths) = 2 /\ paths[2] = last.ret
  /\ Len(P[last.ret].vertices) = 4
  /\ V[P[last.ret].vertices[1]].x = V[P[last.ret].vertices[2]].x
  /\ P[last.ret].selected
\* the pointer went down on the path or on one of its vertices or edges, and
\* did not split an edge
PlainDrag ==
  /\ gesture.target[1] \in {"path", "vertex", "edge"}
  /\ ~(gesture.target[1] = "edge" /\ gesture.ctrl /\ ~gesture.shift)

\* the vertices, edges and segments have the coordinates they had when the
\* pointer went down
SameGeometry ==
  /\ DOMAIN V = DOMAIN gesture.before.V
  /\ DOMAIN E = DOMAIN gesture.before.E
  /\ S = gesture.before.S
  /\ \A v \in DOMAIN V :
       V[v].x = gesture.before.V[v].x /\ V[v].y = gesture.before.V[v].y
  /\ \A e \in DOMAIN E :
       /\ E[e].x0 = gesture.before.E[e].x0 /\ E[e].y0 = gesture.before.E[e].y0
       /\ E[e].to = gesture.before.E[e].to

NoTransformEvent ==
  \A i \in DOMAIN gesture.ev : gesture.ev[i].action # "transform"

\* C27: when the escape key ends a drag that moves, scales or turns a vertex,
\* an edge or a path, every coordinate of the path is what it was at the
\* pointer-down, and the session has emitted no Transform notification.
C27_CancelRestores ==
  (last.op = "escape" /\ PlainDrag) =>
    /\ ~last.err /\ ~session.active
    /\ SameGeometry
    /\ NoTransformEvent
\* the pointer went down on an edge with ctrl and without shift
SplitDrag ==
  gesture.target[1] = "edge" /\ gesture.ctrl /\ ~gesture.shift

\* the path p has the vertices, edges, linkage, segments and coordinates it
\* had when the pointer went down
SamePath(p) ==
  /\ P[p].element
  /\ P[p].vertices = gesture.before.P[p].vertices
  /\ P[p].edges = gesture.before.P[p].edges
  /\ SegValues(Mem, p) =
       [i \in 1..Len(gesture.before.P[p].segs) |->
          gesture.before.S[gesture.before.P[p].segs[i]]]
  /\ \A v \in Range(P[p].vertices) :
       /\ V[v].element
       /\ V[v].x = gesture.before.V[v].x /\ V[v].y = gesture.before.V[v].y
       /\ V[v].incoming = gesture.before.V[v].incoming
       /\ V[v].outgoing = gesture.before.V[v].outgoing
  /\ \A e \in Range(P[p].edges) :
       /\ E[e].element
       /\ E[e].start = gesture.before.E[e].start
       /\ E[e].end = gesture.before.E[e].end
       /\ E[e].x0 = gesture.before.E[e].x0 /\ E[e].y0 = gesture.before.E[e].y0
       /\ E[e].to = gesture.before.E[e].to
       /\ S[E[e].segment] = gesture.before.S[gesture.before.E[e].segment]

\* C28: when the escape key ends a drag that began by splitting an edge, the
\* path has the vertices, the edges, their linkage and order, the segment list
\* and the coordinates and curve parameters it had at the pointer-down.
C28_CancelUndoesSplit ==
  (last.op = "escape" /\ SplitDrag) =>
    /\ ~last.err /\ ~session.active
    /\ paths = gesture.before.paths
    /\ \A p \in Range(paths) : SamePath(p)
\* the path of the session: the path of the item the pointer went down on,
\* or the rectangle that a drag of the root has created
GesturePath ==
  CASE gesture.target[1] = "path" -> gesture.target[2]
    [] gesture.target[1] = "vertex" -> gesture.before.V[gesture.target[2]].path
    [] gesture.target[1] = "edge" -> gesture.before.E[gesture.target[2]].path
    [] OTHER -> Len(gesture.before.P) + 1

\* every pointer-up emits a change notification for the path of its session
C29_EveryPointerUp ==
  last.op = "end" =>
    /\ ~session.active
    /\ \E i \in DOMAIN last.ev : last.ev[i].path = GesturePath

\* C29: a pointer-up that follows at least one pointer move ends the session
\* and emits one Transform notification for the path of the session; a
\* pointer-up with no move before it ends the session and emits what
\* deleteVertex emits when ctrl was down on a vertex and is still down without
\* shift, and nothing otherwise.
C29_PointerUp ==
  last.op = "end" =>
    /\ ~session.active /\ ~last.err
    /\ gesture.phase = "up"
    /\ gesture.moves > 0 =>
         last.ev = <<[action |-> "transform", path |-> GesturePath]>>
    /\ (gesture.moves = 0 /\ gesture.deleted = <<>>) => last.ev = <<>>
    /\ (gesture.moves = 0 /\ gesture.deleted # <<>>) =>
         /\ Len(last.ev) = 1 /\ last.ev[1].path = GesturePath
         /\ last.ev[1].action \in {"transform", "remove"}

\* a drag of a vertex by two moves, ended by the pointer-up
C29_Witness ==
  /\ last.op = "end" /\ ~readonly
  /\ gesture.target = <<"vertex", 2>> /\ gesture.moves = 2
  /\ last.ev = <<[action |-> "transform", path |-> 1]>>
  /\ V[2].x # gesture.before.V[2].x
  /\ ~session.active
\* the pointer went down on a vertex with ctrl and without shift
CtrlOnVertex ==
  gesture.target[1] = "vertex" /\ gesture.ctrl /\ ~gesture.shift

\* C30: after ctrl + pointer-down on a vertex, a pointer-up with ctrl down and
\* shift up and no move in between calls deleteVertex on the vertex once, and
\* the vertex leaves its path; after at least one move the vertex is where
\* the pointer has dragged it, and the pointer-up does not delete it.
C30_CtrlClick ==
  CtrlOnVertex =>
    LET v == gesture.target[2]
        path == gesture.before.V[v].path
    IN /\ (last.op = "end" /\ gesture.moves = 0 /\ last.arg = <<TRUE, FALSE>>) =>
            /\ ~last.err
            /\ gesture.deleted = <<v>>
            /\ ~V[v].element
            /\ v \notin Range(P[path].vertices)
       /\ (last.op = "move") =>
            /\ ~last.err
            /\ session.action = movingAction
            /\ V[v].x = gesture.before.V[v].x
                          + Clamp(last.arg[1], ClientWidth) - session.px
            /\ V[v].y = gesture.before.V[v].y
                          + Clamp(last.arg[2], ClientHeight) - session.py
       /\ (last.op = "end" /\ gesture.moves > 0) =>
            /\ ~last.err
            /\ gesture.deleted = <<>>
            /\ V[v].element
            /\ v \in Range(P[path].vertices)
            /\ Len(P[path].vertices) = Len(gesture.before.P[path].vertices)
            /\ last.ev = <<[action |-> "transform", path |-> path]>>

\* a ctrl + click that has deleted a vertex of the square
C30_Witness ==
  /\ CtrlOnVertex /\ last.op = "end" /\ gesture.moves = 0
  /\ last.arg = <<TRUE, FALSE>>
  /\ gesture.deleted = <<gesture.target[2]>>
  /\ Len(P[1].vertices) = 3 /\ Len(gesture.before.P[1].vertices) = 4
  /\ ~V[gesture.target[2]].element
\* the items of the heaps with their selection left out
Unselected(heap) == [i \in DOMAIN heap |-> [heap[i] EXCEPT !.selected = FALSE]]

\* nothing but the selection differs between the memories a and b
SelectionOnly(a, b) ==
  /\ a.paths = b.paths /\ a.S = b.S
  /\ DOMAIN a.P = DOMAIN b.P /\ DOMAIN a.V = DOMAIN b.V /\ DOMAIN a.E = DOMAIN b.E
  /\ \A i \in DOMAIN a.P : Unselected(a.P)[i] = Unselected(b.P)[i]
  /\ \A i \in DOMAIN a.V : Unselected(a.V)[i] = Unselected(b.V)[i]
  /\ \A i \in DOMAIN a.E : Unselected(a.E)[i] = Unselected(b.E)[i]

\* C31: read-only mode. On a read-only root every handler (the pointer-down,
\* the double click on a vertex or an edge, the del, tab and arrow keys with
\* or without shift and ctrl) leaves every vertex, edge, coordinate and the
\* membership of root.paths as they were, raises no error, notifies of a
\* change of selection only, and registers no listener of pointer moves, of
\* the pointer-up or of the escape key.
C31_ReadOnly ==
  [][readonly =>
       /\ SelectionOnly([paths |-> paths', S |-> S', P |-> P', V |-> V', E |-> E'],
                        Mem)
       /\ \A i \in DOMAIN last'.ev : last'.ev[i].action = "select"
       /\ ~last'.err
       /\ ~session'.active]_vars

\* the del key on a read-only root whose selected path was selected by a
\* pointer-down with ctrl on one of its edges
C31_Witness ==
  /\ readonly
  /\ gesture.phase = "refused" /\ gesture.target[1] = "edge" /\ gesture.ctrl
  /\ gesture.ev # <<>>
  /\ last.op = "del" /\ selected(Mem, paths[1])

\* the notifications of a transform that the last handler emitted are for
\* paths that are in root.paths and not released
TransformOfMembers ==
  \A i \in DOMAIN last.ev :
    last.ev[i].action = "transform" =>
      /\ last.ev[i].path \in Range(paths)
      /\ P[last.ev[i].path].element

\* C32: under every interleaving of the events of a drag session (the
\* pointer-down, the moves, the pointer-up, the escape key) with a double
\* click and the tab, del and arrow keys of the container, no handler raises
\* an error, and a notification of a transform is only emitted for a path
\* that is in root.paths and not released.
C32_Interleaving == ~last.err /\ TransformOfMembers

\* the pointer-up, and an escape key whose handlers raised no error, leave
\* no listener of a session registered
EndedSessions ==
  last.op \in {"end", "escape"} /\ ~last.err => ~session.active /\ ~nested.active

\* C33: at most one drag session is active at any time. The mousemove,
\* mouseup and keydown listeners of at most one call of the drag handler are
\* registered, and the pointer-up or the escape key that ends a session
\* leaves none registered.
C33_OneSession == ~(session.active /\ nested.active) /\ EndedSessions

\* C34: notification completeness. Whenever no drag session is active, a
\* listener that re-reads root.paths on each change notification holds
\* exactly the current membership of root.paths: every change of the
\* membership was followed by a notification, also when a drag of the root
\* created a rectangle and was cancelled with the escape key.
C34_Complete ==
  ~session.active /\ ~nested.active => Range(listener) = Range(paths)

\* the paths of a list that are selected or not, in the order of the list
RECURSIVE Chosen(_, _)
Chosen(list, value) ==
  IF list = <<>> THEN <<>>
  ELSE IF selected(Mem, Head(list)) = value
  THEN <<Head(list)>> \o Chosen(Tail(list), value)
  ELSE Chosen(Tail(list), value)

\* the paths of root.paths that are selected after the step
SelectedNext == {i \in DOMAIN paths' : selected([P |-> P'], paths'[i])}

\* the notifications of the step that tell of the removal of path p
Removals(p) ==
  {i \in DOMAIN last'.ev : last'.ev[i] = [action |-> "remove", path |-> p]}

\* C35: the del key on a root that is not read-only removes every selected
\* path from root.paths and leaves the others in their order; emits one
\* Remove notification for each removed path and for no other, when the path
\* has left root.paths and is not yet released; releases the removed paths;
\* and selects the path that is then at the lowest index a path was removed
\* from, if there is one, and no other path.
C35_Delete ==
  [][last'.op = "del" /\ ~readonly =>
       /\ ~last'.err
       /\ paths' = Chosen(paths, FALSE)
       /\ \A p \in Range(Chosen(paths, TRUE)) :
            /\ Cardinality(Removals(p)) = 1
            /\ \A i \in Removals(p) : ~last'.at[i].member /\ last'.at[i].live
            /\ ~P'[p].element
       /\ \A i \in DOMAIN last'.ev :
            last'.ev[i].action = "remove" =>
              last'.ev[i].path \in Range(Chosen(paths, TRUE))
       /\ Cardinality(SelectedNext) <= 1
       /\ \A i \in DOMAIN paths :
            /\ selected(Mem, paths[i])
            /\ \A j \in 1..(i - 1) : ~selected(Mem, paths[j])
            /\ i <= Len(paths')
            => SelectedNext = {i}]_vars

\* the del key removed two selected paths around one that was not selected,
\* which it has selected
C35_Witness ==
  /\ last.op = "del" /\ ~readonly
  /\ Len(SelectSeq(last.ev, LAMBDA e : e.action = "remove")) = 2
  /\ Len(paths) = 1 /\ selected(Mem, paths[1])
  /\ \E i \in DOMAIN last.ev : last.ev[i] = [action |-> "select", path |-> paths[1]]

\* the shift an arrow key asks for
ArrowShift(key) ==
  CASE key = "left" -> [dx |-> -5, dy |-> 0]
    [] key = "up" -> [dx |-> 0, dy |-> -5]
    [] key = "down" -> [dx |-> 0, dy |-> 5]
    [] OTHER -> [dx |-> 5, dy |-> 0]

\* twice the centre of the bounding box of the vertices of path p
TwiceCentre(p) ==
  LET xs == {V[v].x : v \in Range(P[p].vertices)}
      ys == {V[v].y : v \in Range(P[p].vertices)}
  IN [x |-> Least(xs) + Greatest(xs), y |-> Least(ys) + Greatest(ys)]

\* the centre of path p shifted by d is outside of the working area
LeavesArea(p, d) ==
  \/ TwiceCentre(p).x + 2 * d.dx < 0 \/ TwiceCentre(p).x + 2 * d.dx > 2 * ClientWidth
  \/ TwiceCentre(p).y + 2 * d.dy < 0 \/ TwiceCentre(p).y + 2 * d.dy > 2 * ClientHeight

\* a segment shifted by d
ShiftedSeg(seg, d) ==
  [seg EXCEPT !.x = Add(@, d.dx), !.y = Add(@, d.dy),
              !.x1 = Add(@, d.dx), !.y1 = Add(@, d.dy),
              !.x2 = Add(@, d.dx), !.y2 = Add(@, d.dy)]

\* the step shifts the vertices, edges and segments of path p by d
ShiftedPath(p, d) ==
  /\ P'[p] = P[p]
  /\ \A v \in Range(P[p].vertices) :
       V'[v] = [V[v] EXCEPT !.x = @ + d.dx, !.y = @ + d.dy]
  /\ \A e \in Range(P[p].edges) :
       E'[e] = [E[e] EXCEPT !.x0 = @ + d.dx, !.y0 = @ + d.dy,
                            !.to = ShiftedSeg(@, d)]
  /\ \A k \in Range(P[p].segs) : S'[k] = ShiftedSeg(S[k], d)

\* the step leaves the vertices, edges and segments of path p as they were
SamePathNext(p) ==
  /\ P'[p] = P[p]
  /\ \A v \in Range(P[p].vertices) : V'[v] = V[v]
  /\ \A e \in Range(P[p].edges) : E'[e] = E[e]
  /\ \A k \in Range(P[p].segs) : S'[k] = S[k]

\* C36: the arrow keys move all of the selection or nothing. If the centre
\* of the bounding box of one selected path, shifted as the key asks, is
\* outside of the working area, no path changes and nothing is notified;
\* otherwise every selected path is shifted, one Transform notification is
\* emitted for each selected path and no other, and no unselected path
\* changes.
C36_AllOrNothing ==
  [][last'.op = "arrow" /\ ~readonly =>
       LET d == ArrowShift(last'.arg[1])
           chosen == Chosen(paths, TRUE)
       IN /\ ~last'.err /\ paths' = paths
          /\ \A p \in Range(Chosen(paths, FALSE)) : SamePathNext(p)
          /\ IF \E p \in Range(chosen) : LeavesArea(p, d)
             THEN /\ \A p \in Range(chosen) : SamePathNext(p)
                  /\ last'.ev = <<>>
             ELSE /\ \A p \in Range(chosen) : ShiftedPath(p, d)
                  /\ last'.ev = [i \in DOMAIN chosen |->
                                   [action |-> "transform", path |-> chosen[i]]]]_vars

\* an arrow key that moved nothing: of two selected paths, one would have
\* stayed in the working area and the other not
C36_Witness ==
  /\ last.op = "arrow" /\ ~readonly /\ last.ev = <<>>
  /\ \E p, q \in Range(Chosen(paths, TRUE)) :
       /\ LeavesArea(p, ArrowShift(last.arg[1]))
       /\ ~LeavesArea(q, ArrowShift(last.arg[1]))

\* the size callbacks of the images, in the order of the images
RECURSIVE SizeCalls(_)
SizeCalls(images) ==
  IF images = <<>> THEN <<>>
  ELSE SizeCalls(SubSeq(images, 1, Len(images) - 1))
       \o [i \in 1..Len(images[Len(images)].calls) |-> images[Len(images)].url]

\* C37: getImageSize calls its callback at most once and never after its
\* unregister function was called: in the directive every image's size
\* callback ran at most once, while the image was the one of the last
\* loadImage, before its off and before the scope was destroyed; the size in
\* use is the size of the last image whose callback ran, and none after the
\* scope is destroyed.
C37_SizeCallback ==
  /\ \A k \in 1..Len(scope.images) :
       /\ Len(scope.images[k].calls) <= 1
       /\ \A c \in 1..Len(scope.images[k].calls) :
            /\ scope.images[k].calls[c].current
            /\ ~scope.images[k].calls[c].cancelled
            /\ ~scope.images[k].calls[c].destroyed
       /\ (k < Len(scope.images) /\ ~scope.images[k].fired) =>
            scope.images[k].calls = <<>>
  /\ scope.size # NoSize =>
       /\ SizeCalls(scope.images) # <<>>
       /\ scope.size = ImageSize(SizeCalls(scope.images)[Len(SizeCalls(scope.images))])
  /\ ~scope.root => scope.size = NoSize

\* imageSrc went from one url to another before the first image was loaded;
\* both "load" events were fired since, and the size is that of the second
C37_Witness ==
  /\ Len(scope.images) = 2
  /\ scope.images[1].url # scope.images[2].url
  /\ scope.images[1].fired /\ scope.images[1].calls = <<>>
  /\ Len(scope.images[2].calls) = 1
  /\ scope.size = ImageSize(scope.images[2].url)

\* root.paths[i].selection === svgSelection[i] at every index, equal lengths
Synchronised ==
  /\ Len(paths) = Len(scope.svgSelection)
  /\ \A i \in 1..Len(paths) :
       i <= Len(scope.svgSelection) =>
         tagOf(scope, paths[i]).selection = scope.svgSelection[i]

\* C38: directive synchronisation. When updateRoot has run to its end in the
\* last step (image size known, not re-entered), root.paths and
\* scope.svgSelection have the same length and the Path at every index is the
\* one built from the entry at that index; and updateSelection never rewrote
\* svgSelection on a notification of updateRoot's own insert and remove.
C38_Synchronised == scope.done => Synchronised /\ scope.rewrites = 0

\* the second half of C38 alone
C38_NoRewrite == scope.rewrites = 0

\* the position of vertex v, the start of its outgoing edge's element, the end
\* of its incoming edge's element, the end point of its incoming edge's
\* segment and its own moveto segment, as far as it has them
PointsOf(v) ==
  {<<V[v].x, V[v].y>>}
  \cup (IF V[v].outgoing # NULL
        THEN {<<E[V[v].outgoing].x0, E[V[v].outgoing].y0>>} ELSE {})
  \cup (IF V[v].incoming # NULL
        THEN {<<E[V[v].incoming].to.x, E[V[v].incoming].to.y>>,
              <<S[E[V[v].incoming].segment].x, S[E[V[v].incoming].segment].y>>}
        ELSE {})
  \cup (IF V[v].segment # NULL THEN {<<S[V[v].segment].x, S[V[v].segment].y>>}
        ELSE {})

AgreeAt(p) == \A v \in Range(P[p].vertices) : Cardinality(PointsOf(v)) = 1

OwnSegments(p) ==
  \A i, j \in 1..Len(P[p].edges) :
    /\ E[P[p].edges[i]].segment \in Range(P[p].segs)
    /\ E[P[p].edges[i]].segment = E[P[p].edges[j]].segment => i = j

\* C39: representation agreement. For every vertex of every registered Path
\* its position, the start of its outgoing edge's element, the end of its
\* incoming edge's element, the end point of its incoming edge's segment in
\* the path's list and its moveto segment (if it anchors one) are one point;
\* every edge's segment is in its Path's list and no two edges share one.
C39_Agreement == \A p \in Range(paths) : AgreeAt(p) /\ OwnSegments(p)

C39_Segments == \A p \in Range(paths) : OwnSegments(p)

\* edges a and b of path p are on one subpath
SameSubpath(p, a, b) ==
  \E i \in SubpathStarts(p) : {a, b} \subseteq SubpathEdges(p, i)

\* consecutive entries of path.edges on one subpath follow each other
ChainOrder(p) ==
  \A i \in 1..(Len(P[p].edges) - 1) :
    SameSubpath(p, P[p].edges[i], P[p].edges[i + 1]) =>
      E[P[p].edges[i]].end = E[P[p].edges[i + 1]].start

\* 1-based position of x in list, 0 when absent
PositionIn(list, x) == indexOf(list, x) + 1

\* after splitEdge(edge, ...) the new edge is the entry after edge in
\* path.edges, and the new vertex is the entry after edge.start in
\* path.vertices
SplitOrder ==
  LET e == last.arg[1]
      p == E[e].path
      v == last.ret
  IN /\ PositionIn(P[p].edges, V[v].outgoing) = PositionIn(P[p].edges, e) + 1
     /\ PositionIn(P[p].vertices, v) = PositionIn(P[p].vertices, E[e].start) + 1

\* C40: list order follows chain order. In every registered Path consecutive
\* entries of path.edges that are on one subpath are consecutive on the chain
\* (edges[i].end = edges[i+1].start), and after a splitEdge the new trailing
\* edge sits immediately after the edge that was split and the new vertex
\* immediately after that edge's start, whatever the edge's index.
C40_ChainOrder ==
  /\ \A p \in Registered : ChainOrder(p)
  /\ (last.op = "splitEdge" /\ last.ret # NULL /\ ~last.err) => SplitOrder

====
